---- MODULE Spec2Model ----
(***************************************************************************)
(* Priority-queue engines of the heaps library: the Fibonacci heap         *)
(* (fibonacci_heap.py) and the binomial heap (binomial_heap.py), with the  *)
(* generic sorted() of core.py.                                            *)
(*                                                                         *)
(* Nodes live in an arena: a node is its index in the sequence of nodes    *)
(* ever constructed, and every link (parent, child, next, prev, sibling)   *)
(* is an index or Null.  A node that has been extracted stays in the arena *)
(* with the links it had, as the Python object does while the caller holds *)
(* the handle enqueue returned.                                            *)
(*                                                                         *)
(* Node(key, value) is modelled as the dataclass constructor: it yields a  *)
(* node with the declared field defaults.                                  *)
(***************************************************************************)
EXTENDS Integers, Sequences, FiniteSets, TLC

\* ------------------------------------------------------------------ bounds
MaxNodes == 4
MaxKey == 2
MaxItems == 6
MaxSortKey == 3

\* the keys a caller enqueues
Keys == 1..MaxKey
\* the values a caller enqueues: the caller tags its i-th pair with i, so
\* that two stored pairs of equal key are told apart
Values == 1..MaxNodes
\* the keys test_sorted draws its lists from
SortKeys == 1..MaxSortKey

Null == 0
None == "None"

VARIABLES
    engine,       \* which heap class is under test: "fib" or "bin"
    fib,          \* the FibonacciHeap: arena of nodes, root, size
    bin,          \* the BinomialHeap: arena of nodes, forest, size
    ret,          \* what the last operation returned or raised
    stored,       \* pairs enqueued and not yet returned by extract_min
    prevExtract,  \* key of the last extract_min since the last enqueue
    keys,         \* test_sorted: the list of keys handed to the constructor
    items,        \* __init__: the items the constructor has yet to enqueue
    out,          \* test_sorted: the pairs sorted() has yielded so far
    pc,           \* "ops", or the position of the test or of the merge
    forestA,      \* _add_root_lists: the forest handed to it as list1
    forestB,      \* _add_root_lists: the forest handed to it as list2
    skew,         \* the SkewBinomialHeap: arena of nodes, trees, size
    debug,        \* Python's __debug__: assert statements are executed
    cuts,         \* the cuts the caller has made between turns of sorted()
    tree          \* the BinaryHeapTree(P): arena of nodes, root, size

vars == <<engine, fib, bin, ret, stored, prevExtract, keys, items, out, pc,
          forestA, forestB, skew, debug, cuts, tree>>

\* --------------------------------------------------------------- helpers
Pairs == Keys \X Values

EmptyBag == [p \in Pairs |-> 0]

NoRet == [op |-> "none", error |-> None, key |-> Null, value |-> Null,
          found |-> None, node |-> Null]

\* the result of an operation that raised the exception `exc`
Raised(opname, exc) == [NoRet EXCEPT !.op = opname, !.error = exc]

\* the result of an operation that returned the pair (k, v)
Returned(opname, k, v) == [NoRet EXCEPT !.op = opname, !.key = k, !.value = v]

\* ======================================================================
\* Fibonacci heap  (fibonacci_heap.py)
\* ======================================================================

\* Node(key, value); __post_init__ sets next = prev = self
FibNode(k, v, id) ==
    [key |-> k, value |-> v, degree |-> 0, marked |-> FALSE,
     parent |-> Null, child |-> Null, next |-> id, prev |-> id]

\* FibonacciHeap.__init__ with no items
FibInit == [node |-> <<>>, root |-> Null, size |-> 0]

\* min(node1, node2, key=attrgetter("key")): the first of the smallest
FirstMinByKey(N, n1, n2) == IF N[n2].key < N[n1].key THEN n2 ELSE n1

\* max(node1, node2, key=attrgetter("key")): the first of the largest
FirstMaxByKey(N, n1, n2) == IF N[n2].key > N[n1].key THEN n2 ELSE n1

\* _merge_circular_doubly_linked_lists, line 213: the node returned
merge_result_keep_first(N, node1, node2) == node1

\* line 213 with the second argument preferred when the keys are equal
merge_result_second_on_tie(N, node1, node2) ==
    IF N[node2].key <= N[node1].key THEN node2 ELSE node1

merge_result(N, node1, node2) == FirstMinByKey(N, node1, node2)

\* _merge_circular_doubly_linked_lists without line 212: the prev links of
\* the two successors are not redirected
merge_circular_doubly_linked_lists_next_only(N, node1, node2) ==
    IF node1 = Null THEN [node |-> N, ret |-> node2]
    ELSE IF node2 = Null THEN [node |-> N, ret |-> node1]
    ELSE LET N1 == [N EXCEPT ![node1].next = N[node2].next]
             N2 == [N1 EXCEPT ![node2].next = N[node1].next]
         IN  [node |-> N2, ret |-> merge_result(N2, node1, node2)]

\* _merge_circular_doubly_linked_lists(node1, node2)
\* returns the arena after the splice and the node returned
merge_circular_doubly_linked_lists(N, node1, node2) ==
    IF node1 = Null THEN [node |-> N, ret |-> node2]
    ELSE IF node2 = Null THEN [node |-> N, ret |-> node1]
    ELSE LET \* node1.next, node2.next = node2.next, node1.next
             N1 == [N EXCEPT ![node1].next = N[node2].next]
             N2 == [N1 EXCEPT ![node2].next = N[node1].next]
             \* node1.next.prev, node2.next.prev = node1, node2
             N3 == [N2 EXCEPT ![N2[node1].next].prev = node1]
             N4 == [N3 EXCEPT ![N3[node2].next].prev = node2]
         IN  [node |-> N4, ret |-> merge_result(N4, node1, node2)]

\* the size after an enqueue: self.size += 1
SizeAfterEnqueue(s) == s + 1

\* the size after an extract_min that forgets to count
SizeAfterExtract_unchanged(s) == s

\* the size after an extract_min: self.size -= 1
SizeAfterExtract(s) == s - 1

\* FibonacciHeap.enqueue(key, value)
fib_enqueue(h, k, v) ==
    LET id == Len(h.node) + 1
        N0 == Append(h.node, FibNode(k, v, id))
        m  == merge_circular_doubly_linked_lists(N0, h.root, id)
    IN  [node |-> m.node, root |-> m.ret, size |-> SizeAfterEnqueue(h.size)]

\* FibonacciHeap.find_min()
fib_find_min(h) ==
    IF h.root = Null THEN Raised("find_min", "IndexError")
    ELSE Returned("find_min", h.node[h.root].key, h.node[h.root].value)

\* extract_min, lines 79-86 without the test of line 80
fib_detach_min_no_singleton_case(N, root) ==
    LET N1 == [N EXCEPT ![N[root].prev].next = N[root].next]
        N2 == [N1 EXCEPT ![N1[root].next].prev = N1[root].prev]
    IN  [node |-> N2, root |-> N2[root].next]

\* extract_min, lines 79-86: take the minimum node out of the root ring
fib_detach_min(N, root) ==
    IF N[root].next = root THEN [node |-> N, root |-> Null]
    ELSE LET N1 == [N EXCEPT ![N[root].prev].next = N[root].next]
             N2 == [N1 EXCEPT ![N1[root].next].prev = N1[root].prev]
         IN  [node |-> N2, root |-> N2[root].next]

\* extract_min, lines 90-96: clear the parent of every child of min_node
RECURSIVE fib_clear_parents(_, _, _)
fib_clear_parents(N, curr, first) ==
    LET N1 == [N EXCEPT ![curr].parent = Null]
        nxt == N1[curr].next
    IN  IF nxt = first THEN N1 ELSE fib_clear_parents(N1, nxt, first)

\* extract_min, lines 123-126: the snapshot of the root ring
RECURSIVE fib_to_visit(_, _, _)
fib_to_visit(N, curr, to_visit) ==
    IF to_visit = <<>> \/ to_visit[1] # curr
    THEN fib_to_visit(N, N[curr].next, Append(to_visit, curr))
    ELSE to_visit

\* extract_min, lines 133-134: grow the table to hold index `degree`
RECURSIVE fib_grow_table(_, _)
fib_grow_table(tree_table, degree) ==
    IF degree >= Len(tree_table)
    THEN fib_grow_table(Append(tree_table, Null), degree)
    ELSE tree_table

\* extract_min, line 153: the root that stays a root
fib_minimum(N, curr, other) == FirstMinByKey(N, curr, other)

\* extract_min, line 154 with the arguments of max in the order of line 153
fib_maximum_curr_first(N, curr, other) == FirstMaxByKey(N, curr, other)

\* extract_min, line 154: the root that becomes a child
fib_maximum(N, curr, other) == FirstMaxByKey(N, other, curr)

\* extract_min, lines 156-173 without line 167: maximum is not re-parented
fib_link_no_reparent(N, minimum, maximum) ==
    LET N1 == [N EXCEPT ![N[maximum].next].prev = N[maximum].prev]
        N2 == [N1 EXCEPT ![N1[maximum].prev].next = N1[maximum].next]
        N3 == [N2 EXCEPT ![maximum].next = maximum, ![maximum].prev = maximum]
        m  == merge_circular_doubly_linked_lists(N3, N3[minimum].child, maximum)
        N4 == [m.node EXCEPT ![minimum].child = m.ret]
        N6 == [N4 EXCEPT ![maximum].marked = FALSE]
    IN  [N6 EXCEPT ![minimum].degree = N6[minimum].degree + 1]

\* the link step without the merge of lines 162-164: maximum becomes the
\* only child of minimum
fib_link_drop_children(N, minimum, maximum) ==
    LET N1 == [N EXCEPT ![N[maximum].next].prev = N[maximum].prev]
        N2 == [N1 EXCEPT ![N1[maximum].prev].next = N1[maximum].next]
        N3 == [N2 EXCEPT ![maximum].next = maximum, ![maximum].prev = maximum]
        N4 == [N3 EXCEPT ![minimum].child = maximum]
        N5 == [N4 EXCEPT ![maximum].parent = minimum]
        N6 == [N5 EXCEPT ![maximum].marked = FALSE]
    IN  [N6 EXCEPT ![minimum].degree = N6[minimum].degree + 1]

\* extract_min, lines 156-173: make maximum a child of minimum
fib_link(N, minimum, maximum) ==
    LET N1 == [N EXCEPT ![N[maximum].next].prev = N[maximum].prev]
        N2 == [N1 EXCEPT ![N1[maximum].prev].next = N1[maximum].next]
        N3 == [N2 EXCEPT ![maximum].next = maximum, ![maximum].prev = maximum]
        m  == merge_circular_doubly_linked_lists(N3, N3[minimum].child, maximum)
        N4 == [m.node EXCEPT ![minimum].child = m.ret]
        N5 == [N4 EXCEPT ![maximum].parent = minimum]
        N6 == [N5 EXCEPT ![maximum].marked = FALSE]
    IN  [N6 EXCEPT ![minimum].degree = N6[minimum].degree + 1]

\* the inner `while True` that puts curr in its slot without looking for
\* the tree already there (lines 137-139 and 142-176 left out)
fib_merge_loop_overwrite(N, tree_table, curr) ==
    LET d == N[curr].degree
        T == fib_grow_table(tree_table, d)
    IN  [node |-> N, table |-> [T EXCEPT ![d + 1] = curr], curr |-> curr]

\* extract_min, lines 131-176: the inner `while True` for one visited root
\* index d + 1 of the sequence is tree_table[d]
RECURSIVE fib_merge_loop(_, _, _)
fib_merge_loop(N, tree_table, curr) ==
    LET d == N[curr].degree
        T == fib_grow_table(tree_table, d)
    IN  IF T[d + 1] = Null
        THEN [node |-> N, table |-> [T EXCEPT ![d + 1] = curr], curr |-> curr]
        ELSE LET other   == T[d + 1]
                 T1      == [T EXCEPT ![d + 1] = Null]
                 minimum == fib_minimum(N, curr, other)
                 maximum == fib_maximum(N, curr, other)
             IN  fib_merge_loop(fib_link(N, minimum, maximum), T1, minimum)

\* extract_min, lines 183-184 without the comparison
fib_update_root_always(N, root, curr) == curr

\* extract_min, lines 183-184 with < in place of <=
fib_update_root_strict(N, root, curr) ==
    IF N[curr].key < N[root].key THEN curr ELSE root

\* extract_min, lines 183-184: the update of the min pointer
fib_update_root(N, root, curr) ==
    IF N[curr].key <= N[root].key THEN curr ELSE root

\* extract_min, lines 129-184: the `for curr in to_visit` loop
RECURSIVE fib_consolidate(_, _, _, _, _)
fib_consolidate(N, root, tree_table, to_visit, i) ==
    IF i > Len(to_visit) THEN [node |-> N, root |-> root]
    ELSE LET r == fib_merge_loop(N, tree_table, to_visit[i])
         IN  fib_consolidate(r.node, fib_update_root(r.node, root, r.curr),
                             r.table, to_visit, i + 1)

\* extract_min on an empty heap with `self.size -= 1` ahead of the check
fib_extract_min_empty_size_first(h) ==
    [heap |-> [h EXCEPT !.size = SizeAfterExtract(h.size)],
     ret  |-> Raised("extract_min", "IndexError")]

\* extract_min, lines 74-75: the heap is empty
fib_extract_min_empty(h) ==
    [heap |-> h, ret |-> Raised("extract_min", "IndexError")]

\* FibonacciHeap.extract_min(): the heap afterwards and what is returned
fib_extract_min(h) ==
    IF h.root = Null THEN fib_extract_min_empty(h)
    ELSE LET min_node == h.root
             d  == fib_detach_min(h.node, h.root)
             c  == d.node[min_node].child
             N1 == IF c # Null THEN fib_clear_parents(d.node, c, c) ELSE d.node
             m  == merge_circular_doubly_linked_lists(N1, d.root, c)
             r  == IF m.ret # Null
                   THEN fib_consolidate(m.node, m.ret, <<>>,
                                        fib_to_visit(m.node, m.ret, <<>>), 1)
                   ELSE [node |-> m.node, root |-> m.ret]
         IN  [heap |-> [node |-> r.node, root |-> r.root,
                        size |-> SizeAfterExtract(h.size)],
              ret  |-> Returned("extract_min", h.node[min_node].key,
                                h.node[min_node].value)]

\* the number of loop iterations after which a traversal of an arena of
\* n nodes that has not returned never returns: each iteration pops one
\* entry and pushes two, and a traversal that pops no node twice pops at
\* most 2n + 1 entries
TraversalLimit(n) == 2 * n + 2

\* FibonacciHeap.__contains__, lines 189-197: the `while nodes` loop;
\* the top of the stack is the end of the sequence
RECURSIVE fib_contains_loop(_, _, _, _)
fib_contains_loop(N, nodes, x, steps) ==
    IF nodes = <<>> THEN "False"
    ELSE IF steps > TraversalLimit(Len(N)) THEN "NoReturn"
    ELSE LET node == nodes[Len(nodes)]
             rest == SubSeq(nodes, 1, Len(nodes) - 1)
         IN  IF node = Null THEN fib_contains_loop(N, rest, x, steps + 1)
             ELSE IF N[node].key = x THEN "True"
             ELSE fib_contains_loop(N, rest \o <<N[node].child, N[node].next>>,
                                    x, steps + 1)

\* FibonacciHeap.__contains__(x)
fib_contains(h, x) == fib_contains_loop(h.node, <<h.root>>, x, 0)

\* FibonacciHeap.__len__()
fib_len(h) == h.size

\* ======================================================================
\* Binomial heap  (binomial_heap.py)
\* ======================================================================

\* Node(key, value): child and sibling default to None
BinNode(k, v) == [key |-> k, value |-> v, child |-> Null, sibling |-> Null]

\* BinomialHeapAbstract.__init__ with no items
BinInit == [node |-> <<>>, forest |-> <<>>, size |-> 0]

\* an attribute that no code has assigned: reading it raises AttributeError
Unset == "unset"

\* SkewBinomialHeap() with no items: the inherited __init__ assigns forest
\* and size, and nothing assigns the attribute `trees` that the methods of
\* SkewBinomialHeap read
SkewInit == [node |-> <<>>, forest |-> <<>>, trees |-> Unset, size |-> 0]

\* NodeAbstract.link, lines 56-58 with the comparison reversed
bin_link_root_reversed(N, self, other) ==
    IF N[self].key < N[other].key THEN other ELSE self

\* NodeAbstract.link, lines 56-58: the root of the linked tree
bin_link_root(N, self, other) == IF N[self].key > N[other].key THEN other ELSE self

\* NodeAbstract.link without line 59: the loser keeps its sibling
bin_link_keep_sibling(N, self, other) ==
    LET root  == bin_link_root(N, self, other)
        loser == IF root = self THEN other ELSE self
    IN  [node |-> [N EXCEPT ![root].child = loser], ret |-> root]

\* NodeAbstract.link(self, other): the arena afterwards and the root returned
bin_link(N, self, other) ==
    LET root  == bin_link_root(N, self, other)
        loser == IF root = self THEN other ELSE self
        N1 == [N EXCEPT ![loser].sibling = N[root].child]
        N2 == [N1 EXCEPT ![root].child = loser]
    IN  [node |-> N2, ret |-> root]

\* NodeAbstract.fracture_node, lines 67-71: the loop over the children
RECURSIVE bin_fracture_loop(_, _, _)
bin_fracture_loop(N, current_child, fractures) ==
    IF current_child = Null THEN [node |-> N, fractures |-> fractures]
    ELSE bin_fracture_loop([N EXCEPT ![current_child].sibling = Null],
                           N[current_child].sibling,
                           Append(fractures, current_child))

\* NodeAbstract.fracture_node(self)
bin_fracture_node(N, self) == bin_fracture_loop(N, N[self].child, <<>>)

\* _one_bit_full_adder with line 137 returning a in place of the carry
one_bit_full_adder_drop_carry(N, a, b, carry) ==
    IF a = Null
    THEN IF b = Null /\ carry = Null THEN [node |-> N, t |-> Null, carry |-> Null]
         ELSE IF b = Null /\ carry # Null THEN [node |-> N, t |-> carry, carry |-> Null]
         ELSE IF b # Null /\ carry = Null THEN [node |-> N, t |-> b, carry |-> Null]
         ELSE LET l == bin_link(N, carry, b)
              IN  [node |-> l.node, t |-> Null, carry |-> l.ret]
    ELSE IF b = Null
    THEN IF carry = Null THEN [node |-> N, t |-> a, carry |-> Null]
         ELSE LET l == bin_link(N, a, carry)
              IN  [node |-> l.node, t |-> Null, carry |-> l.ret]
    ELSE LET l == bin_link(N, a, b)
         IN  IF carry = Null THEN [node |-> l.node, t |-> Null, carry |-> l.ret]
             ELSE [node |-> l.node, t |-> a, carry |-> l.ret]

\* BinomialHeapAbstract._one_bit_full_adder(a, b, carry):
\* the arena afterwards, the tree of this position and the carry out
one_bit_full_adder(N, a, b, carry) ==
    IF a = Null
    THEN IF b = Null /\ carry = Null THEN [node |-> N, t |-> Null, carry |-> Null]
         ELSE IF b = Null /\ carry # Null THEN [node |-> N, t |-> carry, carry |-> Null]
         ELSE IF b # Null /\ carry = Null THEN [node |-> N, t |-> b, carry |-> Null]
         ELSE LET l == bin_link(N, carry, b)
              IN  [node |-> l.node, t |-> Null, carry |-> l.ret]
    ELSE IF b = Null
    THEN IF carry = Null THEN [node |-> N, t |-> a, carry |-> Null]
         ELSE LET l == bin_link(N, a, carry)
              IN  [node |-> l.node, t |-> Null, carry |-> l.ret]
    ELSE LET l == bin_link(N, a, b)
         IN  IF carry = Null THEN [node |-> l.node, t |-> Null, carry |-> l.ret]
             ELSE [node |-> l.node, t |-> carry, carry |-> l.ret]

\* zip_longest: the element at position i, None past the end
ZipGet(list, i) == IF i <= Len(list) THEN list[i] ELSE Null

Max(a, b) == IF a >= b THEN a ELSE b

\* _add_root_lists, lines 181-183: the loop over zip_longest(list1, list2)
RECURSIVE add_root_lists_loop(_, _, _, _, _, _)
add_root_lists_loop(N, list1, list2, i, result, carry) ==
    IF i > Max(Len(list1), Len(list2))
    THEN [node |-> N, result |-> result, carry |-> carry]
    ELSE LET r == one_bit_full_adder(N, ZipGet(list1, i), ZipGet(list2, i), carry)
         IN  add_root_lists_loop(r.node, list1, list2, i + 1,
                                 Append(result, r.t), r.carry)

\* _add_root_lists without lines 186-187: the last carry is not appended
add_root_lists_no_final_carry(N, list1, list2) ==
    LET r == add_root_lists_loop(N, list1, list2, 1, <<>>, Null)
    IN  [node |-> r.node, result |-> r.result]

\* BinomialHeapAbstract._add_root_lists(list1, list2)
add_root_lists(N, list1, list2) ==
    LET r == add_root_lists_loop(N, list1, list2, 1, <<>>, Null)
    IN  [node |-> r.node,
         result |-> IF r.carry # Null THEN Append(r.result, r.carry) ELSE r.result]

\* BinomialHeapAbstract.enqueue(key, value)
bin_enqueue(h, k, v) ==
    LET id == Len(h.node) + 1
        N0 == Append(h.node, BinNode(k, v))
        r  == add_root_lists(N0, h.forest, <<id>>)
    IN  [node |-> r.node, forest |-> r.result, size |-> SizeAfterEnqueue(h.size)]

\* min(filter(None, self.forest), key=attrgetter("key")): the first root of
\* least key, scanning from position i with `best` the least so far;
\* Null when the filter yields nothing (min raises ValueError)
RECURSIVE bin_min_node(_, _, _, _)
bin_min_node(N, forest, i, best) ==
    IF i > Len(forest) THEN best
    ELSE IF forest[i] = Null THEN bin_min_node(N, forest, i + 1, best)
    ELSE IF best = Null \/ N[forest[i]].key < N[best].key
         THEN bin_min_node(N, forest, i + 1, forest[i])
         ELSE bin_min_node(N, forest, i + 1, best)

\* the dataclass __eq__ of two nodes: the same object, or equal
\* (key, value, child, sibling) field by field
RECURSIVE NodeEq(_, _, _)
NodeEq(N, a, b) ==
    \/ a = b
    \/ /\ a # Null
       /\ b # Null
       /\ N[a].key = N[b].key
       /\ N[a].value = N[b].value
       /\ NodeEq(N, N[a].child, N[b].child)
       /\ NodeEq(N, N[a].sibling, N[b].sibling)

\* self.forest.index(min_node): the first position whose entry == min_node
RECURSIVE bin_index(_, _, _, _)
bin_index(N, forest, x, i) ==
    IF NodeEq(N, forest[i], x) THEN i ELSE bin_index(N, forest, x, i + 1)

\* list.pop(i)
Pop(list, i) == SubSeq(list, 1, i - 1) \o SubSeq(list, i + 1, Len(list))

\* extract_min, lines 248-249: remove any trailing None values
RECURSIVE bin_strip(_)
bin_strip(forest) ==
    IF forest # <<>> /\ forest[Len(forest)] = Null
    THEN bin_strip(SubSeq(forest, 1, Len(forest) - 1))
    ELSE forest

\* list.reverse()
Reverse(list) == [i \in 1..Len(list) |-> list[Len(list) + 1 - i]]

\* find_min without the emptiness test of lines 232-233
bin_find_min_unchecked(h) ==
    LET min_node == bin_min_node(h.node, h.forest, 1, Null)
    IN  IF min_node = Null THEN Raised("find_min", "ValueError")
        ELSE Returned("find_min", h.node[min_node].key, h.node[min_node].value)

\* BinomialHeapAbstract.find_min()
bin_find_min(h) ==
    IF h.forest = <<>> THEN Raised("find_min", "IndexError")
    ELSE LET min_node == bin_min_node(h.node, h.forest, 1, Null)
         IN  IF min_node = Null THEN Raised("find_min", "ValueError")
             ELSE Returned("find_min", h.node[min_node].key, h.node[min_node].value)

\* extract_min, line 245: the forest once the minimum's entry is taken out
bin_remove_root(forest, min_node_index) == Pop(forest, min_node_index)

\* BinomialHeapAbstract.extract_min(): the heap afterwards and what is returned
bin_extract_min(h) ==
    IF h.forest = <<>> THEN [heap |-> h, ret |-> Raised("extract_min", "IndexError")]
    ELSE LET min_node == bin_min_node(h.node, h.forest, 1, Null)
         IN  IF min_node = Null
             THEN [heap |-> h, ret |-> Raised("extract_min", "ValueError")]
             ELSE LET min_node_index == bin_index(h.node, h.forest, min_node, 1)
                      f  == bin_fracture_node(h.node, min_node)
                      F1 == bin_strip(bin_remove_root(h.forest, min_node_index))
                      r  == add_root_lists(f.node, F1, Reverse(f.fractures))
                  IN  [heap |-> [node |-> r.node, forest |-> r.result,
                                 size |-> SizeAfterExtract(h.size)],
                       ret  |-> Returned("extract_min", h.node[min_node].key,
                                         h.node[min_node].value)]

\* __contains__, lines 268-269 without the sibling
bin_contains_push_child_only(N, node) == <<N[node].child>>

\* __contains__, lines 268-269: what visiting a node pushes on the stack
bin_contains_push(N, node) == <<N[node].child, N[node].sibling>>

\* BinomialHeapAbstract.__contains__, lines 262-270: the `while nodes` loop
RECURSIVE bin_contains_loop(_, _, _, _)
bin_contains_loop(N, nodes, item, steps) ==
    IF nodes = <<>> THEN "False"
    ELSE IF steps > TraversalLimit(Len(N)) + Len(N) THEN "NoReturn"
    ELSE LET node == nodes[Len(nodes)]
             rest == SubSeq(nodes, 1, Len(nodes) - 1)
         IN  IF node = Null THEN bin_contains_loop(N, rest, item, steps + 1)
             ELSE IF N[node].key = item THEN "True"
             ELSE bin_contains_loop(N, rest \o bin_contains_push(N, node),
                                    item, steps + 1)

\* BinomialHeapAbstract.__contains__(item)
bin_contains(h, item) == bin_contains_loop(h.node, h.forest, item, 0)

\* BinomialHeapAbstract.__len__()
bin_len(h) == h.size

\* ======================================================================
\* Pointer-based binary heap  (binary_heap.py)
\* ======================================================================

\* Node(key, value) and NodeP(key, value): left, right and parent are None
TreeNode(k, v) ==
    [key |-> k, value |-> v, left |-> Null, right |-> Null, parent |-> Null]

\* HeapTree.__init__ with no items
TreeInit == [node |-> <<>>, root |-> Null, size |-> 0]

\* AbstractNode.swap_keys_and_values(self, other)
swap_keys_and_values(N, self, other) ==
    [N EXCEPT ![self].key = N[other].key, ![self].value = N[other].value,
              ![other].key = N[self].key, ![other].value = N[self].value]

\* BinaryHeapTree._get_leftmost_leaf_path: the nodes from the root down the
\* left links; its last node is what BinaryHeapTreeP._get_leftmost_leaf
\* returns
get_leftmost_leaf_path(N, root) ==
    LET Path[n \in 1..Len(N)] ==
            IF N[n].left = Null THEN <<n>> ELSE <<n>> \o Path[N[n].left]
    IN  Path[root]

\* BinaryHeapTree._push_node_non_empty(node): the new node becomes the left
\* child of the leftmost leaf, then the loop over the path swaps upwards
push_node_non_empty(N, root, node) ==
    LET path == get_leftmost_leaf_path(N, root)
        n == Len(path)
        N1 == [N EXCEPT ![path[n]].left = node]
        \* the arena, the variable `node` and whether the loop has ended by
        \* `break`, after i turns of the loop
        Turn[i \in 0..n] ==
            IF i = 0 THEN [N |-> N1, node |-> node, done |-> FALSE]
            ELSE LET s == Turn[i - 1]
                     parent == path[n - i + 1]
                 IN  IF s.done THEN s
                     ELSE IF s.N[parent].key > s.N[s.node].key
                     THEN [N |-> swap_keys_and_values(s.N, s.node, parent),
                           node |-> parent, done |-> FALSE]
                     ELSE [s EXCEPT !.done = TRUE]
    IN  Turn[n].N

\* BinaryHeapTreeP._bubble_up(node)
bubble_up(N, node) ==
    LET Turn[i \in 0..Len(N)] ==
            IF i = 0 THEN [N |-> N, node |-> node]
            ELSE LET s == Turn[i - 1]
                     parent == s.N[s.node].parent
                 IN  IF parent # Null /\ s.N[parent].key > s.N[s.node].key
                     THEN [N |-> swap_keys_and_values(s.N, s.node, parent),
                           node |-> parent]
                     ELSE s
    IN  Turn[Len(N)].N

\* BinaryHeapTreeP._push_node_non_empty(node)
push_node_non_empty_p(N, root, node) ==
    LET path == get_leftmost_leaf_path(N, root)
        current == path[Len(path)]
        N1 == [N EXCEPT ![current].left = node]
        N2 == [N1 EXCEPT ![node].parent = current]
    IN  bubble_up(N2, node)

\* HeapTree.push(key, value) of the class `cls`
tree_push(h, cls, k, v) ==
    LET id == Len(h.node) + 1
        N0 == Append(h.node, TreeNode(k, v))
    IN  IF h.root = Null
        THEN [node |-> N0, root |-> id, size |-> h.size + 1]
        ELSE [node |-> IF cls = "treep" THEN push_node_non_empty_p(N0, h.root, id)
                       ELSE push_node_non_empty(N0, h.root, id),
              root |-> h.root, size |-> h.size + 1]

\* BinaryHeapTreeAbstract._bubble_down(node): the arena afterwards, and the
\* exception when line 128 reads the key of a left child that is None
bubble_down(N, node) ==
    LET Turn[i \in 0..Len(N)] ==
            IF i = 0 THEN [N |-> N, node |-> node, error |-> None]
            ELSE LET s == Turn[i - 1]
                     M == s.N
                     l == M[s.node].left
                     r == M[s.node].right
                 IN  IF s.error # None THEN s
                     ELSE IF \/ (l # Null /\ M[s.node].key > M[l].key)
                             \/ (r # Null /\ M[s.node].key > M[r].key)
                     THEN IF r # Null /\ l = Null
                          THEN [s EXCEPT !.error = "AttributeError"]
                          ELSE IF r = Null \/ M[l].key < M[r].key
                          THEN [s EXCEPT !.N = swap_keys_and_values(M, s.node, l),
                                         !.node = l]
                          ELSE [s EXCEPT !.N = swap_keys_and_values(M, s.node, r),
                                         !.node = r]
                     ELSE s
    IN  Turn[Len(N)]

\* BinaryHeapTreeAbstract.decrease_key(node, new_key): the heap afterwards
\* and the result
tree_decrease_key(h, node, new_key) ==
    LET b == bubble_down([h.node EXCEPT ![node].key = new_key], node)
    IN  [heap |-> [h EXCEPT !.node = b.N],
         ret  |-> [NoRet EXCEPT !.op = "decrease_key", !.error = b.error,
                                !.key = new_key, !.node = node]]

\* HeapTree.find_min()
tree_find_min(h) ==
    IF h.root = Null THEN Raised("find_min", "IndexError")
    ELSE Returned("find_min", h.node[h.root].key, h.node[h.root].value)

\* ======================================================================
\* Operations as actions
\* ======================================================================

Engines == {"fib", "bin"}

\* a freshly constructed heap_class() and a caller about to call operations
Init ==
    /\ engine \in Engines
    /\ fib = FibInit
    /\ bin = BinInit
    /\ ret = NoRet
    /\ stored = EmptyBag
    /\ prevExtract = Null
    /\ keys = <<>>
    /\ items = <<>>
    /\ out = <<>>
    /\ pc = "ops"
    /\ forestA = <<>>
    /\ forestB = <<>>
    /\ skew = SkewInit
    /\ tree = TreeInit
    /\ debug = TRUE
    /\ cuts = 0

\* bookkeeping of the caller after enqueue(k, v) returned the node `id`
AfterEnqueue(k, v, id) ==
    /\ ret' = [NoRet EXCEPT !.op = "enqueue", !.key = k, !.value = v, !.node = id]
    /\ stored' = [stored EXCEPT ![<<k, v>>] = @ + 1]
    /\ prevExtract' = Null

\* bookkeeping of the caller after extract_min returned or raised `r`
AfterExtract(r) ==
    /\ ret' = r
    /\ IF r.error = None
       THEN /\ stored' = [stored EXCEPT ![<<r.key, r.value>>] = @ - 1]
            /\ prevExtract' = r.key
       ELSE UNCHANGED <<stored, prevExtract>>

\* heap.enqueue(k, v) on the FibonacciHeap
FibEnqueue(k, v) ==
    /\ pc = "ops" /\ engine = "fib"
    /\ Len(fib.node) < MaxNodes
    /\ fib' = fib_enqueue(fib, k, v)
    /\ AfterEnqueue(k, v, Len(fib.node) + 1)
    /\ UNCHANGED <<tree, engine, cuts, forestA, forestB, skew, debug, bin, keys, items, out, pc>>

\* heap.extract_min() on the FibonacciHeap
FibExtractMin ==
    /\ pc = "ops" /\ engine = "fib"
    /\ LET r == fib_extract_min(fib)
       IN  fib' = r.heap /\ AfterExtract(r.ret)
    /\ UNCHANGED <<tree, engine, cuts, forestA, forestB, skew, debug, bin, keys, items, out, pc>>

\* heap.find_min() on the FibonacciHeap
FibFindMin ==
    /\ pc = "ops" /\ engine = "fib"
    /\ ret' = fib_find_min(fib)
    /\ UNCHANGED <<tree, engine, cuts, forestA, forestB, skew, debug, fib, bin, stored, prevExtract, keys, items, out, pc>>

\* `x in heap` on the FibonacciHeap
FibContains(x) ==
    /\ pc = "ops" /\ engine = "fib"
    /\ ret' = [NoRet EXCEPT !.op = "contains", !.key = x,
                            !.found = fib_contains(fib, x)]
    /\ UNCHANGED <<tree, engine, cuts, forestA, forestB, skew, debug, fib, bin, stored, prevExtract, keys, items, out, pc>>

\* heap.enqueue(k, v) on the BinomialHeap
BinEnqueue(k, v) ==
    /\ pc = "ops" /\ engine = "bin"
    /\ Len(bin.node) < MaxNodes
    /\ bin' = bin_enqueue(bin, k, v)
    /\ AfterEnqueue(k, v, Len(bin.node) + 1)
    /\ UNCHANGED <<tree, engine, cuts, forestA, forestB, skew, debug, fib, keys, items, out, pc>>

\* heap.extract_min() on the BinomialHeap
BinExtractMin ==
    /\ pc = "ops" /\ engine = "bin"
    /\ LET r == bin_extract_min(bin)
       IN  bin' = r.heap /\ AfterExtract(r.ret)
    /\ UNCHANGED <<tree, engine, cuts, forestA, forestB, skew, debug, fib, keys, items, out, pc>>

\* heap.find_min() on the BinomialHeap
BinFindMin ==
    /\ pc = "ops" /\ engine = "bin"
    /\ ret' = bin_find_min(bin)
    /\ UNCHANGED <<tree, engine, cuts, forestA, forestB, skew, debug, fib, bin, stored, prevExtract, keys, items, out, pc>>

\* `x in heap` on the BinomialHeap
BinContains(x) ==
    /\ pc = "ops" /\ engine = "bin"
    /\ ret' = [NoRet EXCEPT !.op = "contains", !.key = x,
                            !.found = bin_contains(bin, x)]
    /\ UNCHANGED <<tree, engine, cuts, forestA, forestB, skew, debug, fib, bin, stored, prevExtract, keys, items, out, pc>>

Next ==
    \/ \E k \in Keys : FibEnqueue(k, Len(fib.node) + 1)
    \/ FibExtractMin
    \/ FibFindMin
    \/ \E x \in Keys : FibContains(x)
    \/ \E k \in Keys : BinEnqueue(k, Len(bin.node) + 1)
    \/ BinExtractMin
    \/ BinFindMin
    \/ \E x \in Keys : BinContains(x)

\* any interleaving of enqueue, extract_min, find_min and contains
Spec == Init /\ [][Next]_vars

\* ======================================================================
\* test_sorted: heap_class([(k, None) for k in keys]) drained by sorted()
\* ======================================================================

KeyLists == UNION {[1..n -> SortKeys] : n \in 0..MaxItems}

InitSorted ==
    /\ engine \in Engines
    /\ fib = FibInit
    /\ bin = BinInit
    /\ ret = NoRet
    /\ stored = EmptyBag
    /\ prevExtract = Null
    /\ keys \in KeyLists
    /\ items = [i \in 1..Len(keys) |-> <<keys[i], Null>>]
    /\ out = <<>>
    /\ pc = "construct"
    /\ forestA = <<>>
    /\ forestB = <<>>
    /\ skew = SkewInit
    /\ tree = TreeInit
    /\ debug = TRUE
    /\ cuts = 0

\* FibonacciHeap.__init__, lines 59-60: one turn of the loop over items
FibConstruct ==
    /\ pc = "construct" /\ engine = "fib"
    /\ items # <<>>
    /\ fib' = fib_enqueue(fib, items[1][1], items[1][2])
    /\ items' = Tail(items)
    /\ UNCHANGED <<tree, engine, cuts, forestA, forestB, skew, debug, bin, ret, stored, prevExtract, keys, out, pc>>

\* BinomialHeapAbstract.__init__, lines 100-101: one turn of the loop
BinConstruct ==
    /\ pc = "construct" /\ engine = "bin"
    /\ items # <<>>
    /\ bin' = bin_enqueue(bin, items[1][1], items[1][2])
    /\ items' = Tail(items)
    /\ UNCHANGED <<tree, engine, cuts, forestA, forestB, skew, debug, fib, ret, stored, prevExtract, keys, out, pc>>

\* the constructor has returned and the test calls heap.sorted()
CallSorted ==
    /\ pc = "construct"
    /\ items = <<>>
    /\ pc' = "sorted"
    /\ UNCHANGED <<tree, engine, cuts, forestA, forestB, skew, debug, fib, bin, ret, stored, prevExtract, keys, items, out>>

\* Heap.sorted, line 122 with `>=` for `>`
sorted_continues_at_zero(n) == n >= 0

\* Heap.sorted, line 122: the loop condition
sorted_continues(n) == n > 0

\* bookkeeping of the generator after extract_min returned or raised `r`
AfterYield(r) ==
    /\ ret' = r
    /\ IF r.error = None
       THEN out' = Append(out, <<r.key, r.value>>) /\ pc' = pc
       ELSE out' = out /\ pc' = "raised"

\* Heap.sorted on the FibonacciHeap: one turn of the generator
FibSorted ==
    /\ pc = "sorted" /\ engine = "fib"
    /\ IF sorted_continues(fib_len(fib))
       THEN LET r == fib_extract_min(fib)
            IN  fib' = r.heap /\ AfterYield(r.ret)
       ELSE fib' = fib /\ ret' = ret /\ out' = out /\ pc' = "done"
    /\ UNCHANGED <<tree, engine, cuts, forestA, forestB, skew, debug, bin, stored, prevExtract, keys, items>>

\* Heap.sorted on the BinomialHeap: one turn of the generator
BinSorted ==
    /\ pc = "sorted" /\ engine = "bin"
    /\ IF sorted_continues(bin_len(bin))
       THEN LET r == bin_extract_min(bin)
            IN  bin' = r.heap /\ AfterYield(r.ret)
       ELSE bin' = bin /\ ret' = ret /\ out' = out /\ pc' = "done"
    /\ UNCHANGED <<tree, engine, cuts, forestA, forestB, skew, debug, fib, stored, prevExtract, keys, items>>

NextSorted ==
    \/ FibConstruct
    \/ BinConstruct
    \/ CallSorted
    \/ FibSorted
    \/ BinSorted

SpecSorted == InitSorted /\ [][NextSorted]_vars

\* ======================================================================
\* Properties
\* ======================================================================

\* The builtin sorted(keys) of test_sorted: the ascending sort of a list
RECURSIVE InsertAscending(_, _)
InsertAscending(x, s) ==
    IF s = <<>> THEN <<x>>
    ELSE IF x <= s[1] THEN <<x>> \o s
    ELSE <<s[1]>> \o InsertAscending(x, Tail(s))

RECURSIVE Ascending(_)
Ascending(s) ==
    IF s = <<>> THEN <<>> ELSE InsertAscending(s[1], Ascending(Tail(s)))

\* [key for key, _ in heap.sorted()]
OutKeys == [i \in 1..Len(out) |-> out[i][1]]

\* the list has two equal keys and two keys out of order
Shuffled(s) ==
    /\ \E i, j \in 1..Len(s) : i < j /\ s[i] > s[j]
    /\ \E i, j \in 1..Len(s) : i < j /\ s[i] = s[j]

HeapLen == IF engine = "fib" THEN fib_len(fib) ELSE bin_len(bin)

\* the heap under test holds no node: self.root is None / self.forest == []
HeapEmpty == IF engine = "fib" THEN fib.root = Null ELSE bin.forest = <<>>

\* the pairs, and the keys, enqueued and not yet returned by extract_min
StoredPairs == {p \in Pairs : stored[p] > 0}

StoredKeys == {p[1] : p \in StoredPairs}

\* the last operation raised
Failed == ret.error # None

\* the last operation was `opname` and returned
Did(opname) == ret.op = opname /\ ret.error = None

\* C3, find_min: on a non-empty heap find_min returns a stored pair whose
\* key is <= every stored key
FindMinIsLeast ==
    (ret.op = "find_min" /\ StoredPairs # {}) =>
        /\ ret.error = None
        /\ <<ret.key, ret.value>> \in StoredPairs
        /\ \A k \in StoredKeys : ret.key <= k

\* C3, extract_min after find_min: it returns a pair with the key find_min
\* returned
ExtractAfterFindMin ==
    (Did("find_min") /\ ret'.op = "extract_min") =>
        (ret'.error = None /\ ret'.key = ret.key)

\* C3, successive extract_min with no enqueue in between: the keys returned
\* are non-decreasing
ExtractNonDecreasing ==
    (prevExtract # Null /\ ret'.op = "extract_min" /\ ret'.error = None) =>
        prevExtract <= ret'.key

\* C3: min-order of BinomialHeap and FibonacciHeap under any interleaving of
\* enqueue and extract_min: find_min returns a least stored key, the next
\* extract_min returns that key, successive extracted keys are non-decreasing
MinOrder ==
    /\ [](FindMinIsLeast)
    /\ [][ExtractAfterFindMin /\ ExtractNonDecreasing]_vars

\* C3 witness: find_min has answered on a heap that holds three pairs of
\* two different keys after an extract_min
MinOrderWitness ==
    /\ Did("find_min")
    /\ prevExtract # Null
    /\ Cardinality(StoredPairs) >= 3
    /\ Cardinality(StoredKeys) >= 2

\* C4, one step: enqueue adds exactly 1 to len(heap), a successful
\* extract_min subtracts exactly 1, find_min and contains leave it unchanged
SizeStep ==
    /\ (ret'.op = "enqueue" /\ ret'.error = None) => HeapLen' = HeapLen + 1
    /\ (ret'.op = "extract_min" /\ ret'.error = None) => HeapLen' = HeapLen - 1
    /\ ret'.op \in {"find_min", "contains"} => HeapLen' = HeapLen

\* C4: size invariant of BinomialHeap and FibonacciHeap: len(heap) moves by
\* exactly +1 per enqueue and -1 per extract_min, is left alone by find_min
\* and contains, and is never negative
SizeInvariant ==
    /\ [](HeapLen >= 0)
    /\ [][SizeStep]_vars

\* C4 witness: an extract_min has returned on a heap that then still holds
\* two pairs
SizeInvariantWitness ==
    /\ Did("extract_min")
    /\ HeapLen = 2
    /\ Cardinality(StoredPairs) = 2

\* C5, one step: find_min and extract_min on a heap that stores nothing
\* raise IndexError
EmptyRaisesStep ==
    (StoredPairs = {} /\ ret'.op \in {"find_min", "extract_min"}) =>
        ret'.error = "IndexError"

\* C5: empty-heap contract: find_min and extract_min raise IndexError on a
\* fresh BinomialHeap or FibonacciHeap and on one emptied by extract_min
EmptyHeapContract == [][EmptyRaisesStep]_vars

\* C5 witness: an operation has raised IndexError on a heap that had been
\* filled with three or more pairs and drained
EmptyHeapContractWitness ==
    /\ ret.op \in {"find_min", "extract_min"}
    /\ ret.error = "IndexError"
    /\ StoredPairs = {}
    /\ Len(fib.node) + Len(bin.node) >= 3

\* C6, one step: a find_min or extract_min that raises changes nothing of
\* the heap
FailureChangesNothing ==
    ret'.error # None => (fib' = fib /\ bin' = bin)

\* C6, after the failure: size is 0, the structure is empty, and
\* enqueue(k, v) followed by find_min returns (k, v)
FailureLeavesEmpty ==
    Failed =>
        /\ HeapLen = 0
        /\ HeapEmpty
        /\ \A k \in Keys :
              LET v == Len(fib.node) + Len(bin.node) + 1
              IN  /\ fib_find_min(fib_enqueue(fib, k, v)) = Returned("find_min", k, v)
                  /\ bin_find_min(bin_enqueue(bin, k, v)) = Returned("find_min", k, v)

FibContainsStored ==
    (engine = "fib" /\ ret.op = "contains" /\ ret.key \in StoredKeys) =>
        ret.found = "True"

\* C8: on a BinomialHeap, contains(key) returns true for every key enqueued
\* and not yet extracted and false for every other key
BinContainsExact ==
    (engine = "bin" /\ ret.op = "contains") =>
        ret.found = IF ret.key \in StoredKeys THEN "True" ELSE "False"

\* C8 witness: contains has answered true for a key held only by nodes
\* that are not roots of the forest
BinContainsExactWitness ==
    /\ engine = "bin" /\ ret.op = "contains" /\ ret.found = "True"
    /\ \A i \in 1..Len(bin.forest) :
          bin.forest[i] # Null => bin.node[bin.forest[i]].key # ret.key
    /\ prevExtract # Null

\* C9: an empty BinomialHeap or FibonacciHeap, fresh or drained, answers
\* contains(k) with false for every key k
EmptyContainsNothing ==
    (ret.op = "contains" /\ StoredPairs = {}) => ret.found = "False"

\* C9 witness: contains has answered on a FibonacciHeap drained of three or
\* more pairs
EmptyContainsNothingWitness ==
    /\ ret.op = "contains" /\ StoredPairs = {}
    /\ engine = "fib" /\ Len(fib.node) >= 3

\* the number of nodes of the tree rooted at a node, and of the siblings
\* to its right
RECURSIVE BinCount(_, _)
BinCount(N, node) ==
    IF node = Null THEN 0
    ELSE 1 + BinCount(N, N[node].child) + BinCount(N, N[node].sibling)

BinTreeSize(N, root) == 1 + BinCount(N, N[root].child)

RECURSIVE Pow2(_)
Pow2(i) == IF i = 0 THEN 1 ELSE 2 * Pow2(i - 1)

\* C10: in every reachable state of a BinomialHeap the tree at index i of
\* the forest list has exactly 2^i nodes
BinForestShape ==
    engine = "bin" =>
        \A i \in 1..Len(bin.forest) :
            bin.forest[i] # Null =>
                BinTreeSize(bin.node, bin.forest[i]) = Pow2(i - 1)

\* ---------------------------------------------------- binomial forest orders

\* the number of nodes of a sibling chain
RECURSIVE BinChainLen(_, _)
BinChainLen(N, node) ==
    IF node = Null THEN 0 ELSE 1 + BinChainLen(N, N[node].sibling)

\* the order of a tree: the number of children of its root
BinOrder(N, root) == BinChainLen(N, N[root].child)

\* C11: after any sequence of enqueue and extract_min on a BinomialHeap no
\* two trees of the forest have the same order (number of children of the
\* root)
BinOrderUnique ==
    engine = "bin" =>
        \A i, j \in 1..Len(bin.forest) :
            (i < j /\ bin.forest[i] # Null /\ bin.forest[j] # Null) =>
                BinOrder(bin.node, bin.forest[i]) # BinOrder(bin.node, bin.forest[j])

\* ======================================================================
\* _add_root_lists applied to two forests
\* ======================================================================

\* the most nodes the two forests handed to _add_root_lists hold together
MaxAddNodes == 8

\* two empty forests, about to be filled and merged
InitAdd ==
    /\ engine = "bin"
    /\ fib = FibInit
    /\ bin = BinInit
    /\ ret = NoRet
    /\ stored = EmptyBag
    /\ prevExtract = Null
    /\ keys = <<>>
    /\ items = <<>>
    /\ out = <<>>
    /\ pc = "list1"
    /\ forestA = <<>>
    /\ forestB = <<>>
    /\ skew = SkewInit
    /\ tree = TreeInit
    /\ debug = TRUE
    /\ cuts = 0

\* enqueue, lines 208-209, on a forest: the forest grown by Node(k, v)
bin_grow(N, forest, k, v) ==
    add_root_lists(Append(N, BinNode(k, v)), forest, <<Len(N) + 1>>)

\* the first forest grows by one node
GrowList1(k) ==
    /\ pc = "list1"
    /\ Len(bin.node) < MaxAddNodes
    /\ LET r == bin_grow(bin.node, forestA, k, Len(bin.node) + 1)
       IN  bin' = [bin EXCEPT !.node = r.node] /\ forestA' = r.result
    /\ UNCHANGED <<tree, engine, cuts, forestB, skew, debug, fib, ret, stored, prevExtract,
                   keys, items, out, pc>>

\* the first forest is complete
EndList1 ==
    /\ pc = "list1"
    /\ pc' = "list2"
    /\ UNCHANGED <<tree, engine, cuts, forestA, forestB, skew, debug, fib, bin, ret, stored,
                   prevExtract, keys, items, out>>

\* the second forest grows by one node
GrowList2(k) ==
    /\ pc = "list2"
    /\ Len(bin.node) < MaxAddNodes
    /\ LET r == bin_grow(bin.node, forestB, k, Len(bin.node) + 1)
       IN  bin' = [bin EXCEPT !.node = r.node] /\ forestB' = r.result
    /\ UNCHANGED <<tree, engine, cuts, forestA, skew, debug, fib, ret, stored, prevExtract,
                   keys, items, out, pc>>

\* self.forest = self._add_root_lists(list1, list2)
AddRootLists ==
    /\ pc = "list2"
    /\ LET r == add_root_lists(bin.node, forestA, forestB)
       IN  bin' = [bin EXCEPT !.node = r.node, !.forest = r.result]
    /\ pc' = "added"
    /\ UNCHANGED <<tree, engine, cuts, forestA, forestB, skew, debug, fib, ret, stored,
                   prevExtract, keys, items, out>>

NextAdd ==
    \/ \E k \in Keys : GrowList1(k)
    \/ EndList1
    \/ \E k \in Keys : GrowList2(k)
    \/ AddRootLists

\* _add_root_lists on every pair of forests that enqueue builds
SpecAdd == InitAdd /\ [][NextAdd]_vars

\* the nodes of the tree rooted at a node and of the siblings to its right
RECURSIVE BinNodesOf(_, _)
BinNodesOf(N, node) ==
    IF node = Null THEN <<>>
    ELSE <<node>> \o BinNodesOf(N, N[node].child) \o BinNodesOf(N, N[node].sibling)

\* the nodes of the trees of a forest
RECURSIVE BinForestNodes(_, _, _)
BinForestNodes(N, forest, i) ==
    IF i > Len(forest) THEN <<>>
    ELSE (IF forest[i] = Null THEN <<>>
          ELSE <<forest[i]>> \o BinNodesOf(N, N[forest[i]].child))
         \o BinForestNodes(N, forest, i + 1)

\* the nodes of a forest whose tree at index i has 2^i nodes
RECURSIVE ForestCount(_, _)
ForestCount(forest, i) ==
    IF i > Len(forest) THEN 0
    ELSE (IF forest[i] = Null THEN 0 ELSE Pow2(i - 1)) + ForestCount(forest, i + 1)

\* bit i of the binary representation of x
Bit(x, i) == (x \div Pow2(i)) % 2

\* the tree at index i of the forest, for every i, has 2^i nodes
OrderIndexed(N, forest) ==
    \A i \in 1..Len(forest) :
        forest[i] # Null => BinTreeSize(N, forest[i]) = Pow2(i - 1)

\* C12: _add_root_lists on two order-indexed forests of m and n nodes returns
\* a forest whose occupied indices are the 1-bits of m + n, whose tree at
\* index i has 2^i nodes, and which holds every node of both inputs once
CarryMergeIsBinaryAddition ==
    pc = "added" =>
        LET total == ForestCount(forestA, 1) + ForestCount(forestB, 1)
            nodes == BinForestNodes(bin.node, bin.forest, 1)
        IN  /\ \A i \in 1..Len(bin.forest) :
                  (bin.forest[i] # Null) <=> (Bit(total, i - 1) = 1)
            /\ total < Pow2(Len(bin.forest))
            /\ OrderIndexed(bin.node, bin.forest)
            /\ Len(nodes) = Len(bin.node)
            /\ {nodes[i] : i \in 1..Len(nodes)} = 1..Len(bin.node)

\* the forests handed to _add_root_lists are order-indexed and hold all the
\* nodes constructed
AddInputsOrderIndexed ==
    pc \in {"list1", "list2"} =>
        /\ OrderIndexed(bin.node, forestA)
        /\ OrderIndexed(bin.node, forestB)
        /\ ForestCount(forestA, 1) + ForestCount(forestB, 1) = Len(bin.node)

\* C12 witness: forests of 5 and 3 nodes have been merged into a single
\* tree at index 3
CarryMergeWitness ==
    /\ pc = "added"
    /\ ForestCount(forestA, 1) = 5
    /\ ForestCount(forestB, 1) = 3
    /\ Len(bin.forest) = 4
    /\ \A i \in 1..3 : bin.forest[i] = Null
    /\ bin.forest[4] # Null

\* heap.find_min() of the heap under test, without calling it
HeapFindMin == IF engine = "fib" THEN fib_find_min(fib) ELSE bin_find_min(bin)

\* C16: sorted() on a heap of n elements calls extract_min exactly n times,
\* yields exactly n pairs and ends without raising; afterwards len(heap) is
\* 0 and find_min raises the empty-heap error; on an empty heap it yields
\* nothing and raises nothing
SortedConsumes ==
    /\ pc # "raised"
    /\ pc \in {"sorted", "done"} => Len(out) + HeapLen = Len(keys)
    /\ pc = "done" =>
          /\ Len(out) = Len(keys)
          /\ HeapLen = 0
          /\ HeapFindMin = Raised("find_min", "IndexError")

\* C16 witness: sorted() has ended on a BinomialHeap that held four or more
\* elements
SortedConsumesWitness ==
    /\ pc = "done" /\ engine = "bin"
    /\ Len(keys) >= 4
    /\ Len(out) = Len(keys)
    /\ ret.op = "extract_min"

\* the members of the root ring of the FibonacciHeap, from the min pointer
FibRoots == IF fib.root = Null THEN <<>> ELSE fib_to_visit(fib.node, fib.root, <<>>)

\* C17: immediately after every FibonacciHeap.extract_min that leaves the
\* heap non-empty, no two nodes of the root ring have the same degree
FibDegreeUnique ==
    (engine = "fib" /\ Did("extract_min") /\ fib.root # Null) =>
        \A i, j \in 1..Len(FibRoots) :
            i < j => fib.node[FibRoots[i]].degree # fib.node[FibRoots[j]].degree

\* C17 witness: extract_min has left a root ring of two trees, one of them
\* with a child
FibDegreeUniqueWitness ==
    /\ engine = "fib" /\ Did("extract_min")
    /\ Len(FibRoots) = 2
    /\ \E i \in 1..2 : fib.node[FibRoots[i]].degree = 1

\* ======================================================================
\* Fibonacci heap: cuts and decrease_key
\* ======================================================================

\* _cascading_cut without lines 246-249: the parent is neither cut nor marked
fib_cut_no_cascade(N, root, node) ==
    LET N1 == [N EXCEPT ![node].marked = FALSE]
        p  == N[node].parent
        N2 == IF N1[node].next # node
              THEN LET M == [N1 EXCEPT ![N1[node].next].prev = N1[node].prev]
                   IN  [M EXCEPT ![M[node].prev].next = N1[node].next]
              ELSE N1
        N3 == IF N2[p].child = node
              THEN [N2 EXCEPT ![p].child =
                        IF N2[node].next # node THEN N2[node].next ELSE Null]
              ELSE N2
        N4 == [N3 EXCEPT ![p].degree = @ - 1]
        N5 == [N4 EXCEPT ![node].next = node, ![node].prev = node]
        m  == merge_circular_doubly_linked_lists(N5, root, node)
    IN  IF p = Null THEN [node |-> N1, root |-> root]
        ELSE [node |-> [m.node EXCEPT ![node].parent = Null], root |-> m.ret]

\* _cascading_cut without line 238: the parent's degree is not decremented
RECURSIVE fib_cut_no_decrement(_, _, _)
fib_cut_no_decrement(N, root, node) ==
    LET N1 == [N EXCEPT ![node].marked = FALSE]
        p  == N[node].parent
        N2 == IF N1[node].next # node
              THEN LET M == [N1 EXCEPT ![N1[node].next].prev = N1[node].prev]
                   IN  [M EXCEPT ![M[node].prev].next = N1[node].next]
              ELSE N1
        N3 == IF N2[p].child = node
              THEN [N2 EXCEPT ![p].child =
                        IF N2[node].next # node THEN N2[node].next ELSE Null]
              ELSE N2
        N5 == [N3 EXCEPT ![node].next = node, ![node].prev = node]
        m  == merge_circular_doubly_linked_lists(N5, root, node)
        r  == IF m.node[p].marked
              THEN fib_cut_no_decrement(m.node, m.ret, p)
              ELSE [node |-> [m.node EXCEPT ![p].marked = TRUE], root |-> m.ret]
    IN  IF p = Null THEN [node |-> N1, root |-> root]
        ELSE [node |-> [r.node EXCEPT ![node].parent = Null], root |-> r.root]

\* _cascading_cut without lines 229-235: the parent's child pointer stays
RECURSIVE fib_cut_keep_child(_, _, _)
fib_cut_keep_child(N, root, node) ==
    LET N1 == [N EXCEPT ![node].marked = FALSE]
        p  == N[node].parent
        N2 == IF N1[node].next # node
              THEN LET M == [N1 EXCEPT ![N1[node].next].prev = N1[node].prev]
                   IN  [M EXCEPT ![M[node].prev].next = N1[node].next]
              ELSE N1
        N4 == [N2 EXCEPT ![p].degree = @ - 1]
        N5 == [N4 EXCEPT ![node].next = node, ![node].prev = node]
        m  == merge_circular_doubly_linked_lists(N5, root, node)
        r  == IF m.node[p].marked
              THEN fib_cut_keep_child(m.node, m.ret, p)
              ELSE [node |-> [m.node EXCEPT ![p].marked = TRUE], root |-> m.ret]
    IN  IF p = Null THEN [node |-> N1, root |-> root]
        ELSE [node |-> [r.node EXCEPT ![node].parent = Null], root |-> r.root]

\* _cascading_cut, lines 218-251: the arena and the min pointer afterwards
RECURSIVE fib_cut(_, _, _)
fib_cut(N, root, node) ==
    LET N1 == [N EXCEPT ![node].marked = FALSE]
        p  == N[node].parent
        \* lines 224-225: splice the node out of the ring of its siblings
        N2 == IF N1[node].next # node
              THEN LET M == [N1 EXCEPT ![N1[node].next].prev = N1[node].prev]
                   IN  [M EXCEPT ![M[node].prev].next = N1[node].next]
              ELSE N1
        \* lines 229-235: the parent's child pointer
        N3 == IF N2[p].child = node
              THEN [N2 EXCEPT ![p].child =
                        IF N2[node].next # node THEN N2[node].next ELSE Null]
              ELSE N2
        N4 == [N3 EXCEPT ![p].degree = @ - 1]
        N5 == [N4 EXCEPT ![node].next = node, ![node].prev = node]
        m  == merge_circular_doubly_linked_lists(N5, root, node)
        \* lines 246-249: cut the marked parent too, or mark it
        r  == IF m.node[p].marked
              THEN fib_cut(m.node, m.ret, p)
              ELSE [node |-> [m.node EXCEPT ![p].marked = TRUE], root |-> m.ret]
    IN  IF p = Null THEN [node |-> N1, root |-> root]
        ELSE [node |-> [r.node EXCEPT ![node].parent = Null], root |-> r.root]

\* FibonacciHeap._cascading_cut(node); line 216 raises AssertionError on a
\* node that is not marked when assert statements are executed
cascading_cut(h, node, dbg) ==
    IF dbg /\ ~h.node[node].marked
    THEN [heap |-> h, ret |-> Raised("cut", "AssertionError")]
    ELSE LET r == fib_cut(h.node, h.root, node)
         IN  [heap |-> [h EXCEPT !.node = r.node, !.root = r.root],
              ret  |-> [NoRet EXCEPT !.op = "cut"]]

\* heap.decrease_key(node, new_key) on the FibonacciHeap: the class defines
\* no attribute decrease_key, so the attribute lookup raises
fib_decrease_key(h, node, new_key) ==
    [heap |-> h, ret |-> Raised("decrease_key", "AttributeError")]

\* the root of the tree that holds a node
RECURSIVE FibTop(_, _)
FibTop(N, x) == IF N[x].parent = Null THEN x ELSE FibTop(N, N[x].parent)

\* the nodes a FibonacciHeap stores: those of the trees of its root ring
FibStoredNodes(h) ==
    IF h.root = Null THEN {}
    ELSE LET ring == fib_to_visit(h.node, h.root, <<>>)
         IN  {x \in 1..Len(h.node) :
                 \E i \in 1..Len(ring) : ring[i] = FibTop(h.node, x)}

\* a caller holding the handles of a FibonacciHeap, with assert statements
\* executed (python) or not (python -O)
InitCut ==
    /\ engine = "fib"
    /\ fib = FibInit
    /\ bin = BinInit
    /\ ret = NoRet
    /\ stored = EmptyBag
    /\ prevExtract = Null
    /\ keys = <<>>
    /\ items = <<>>
    /\ out = <<>>
    /\ pc = "ops"
    /\ forestA = <<>>
    /\ forestB = <<>>
    /\ skew = SkewInit
    /\ tree = TreeInit
    /\ debug \in BOOLEAN
    /\ cuts = 0

\* heap._cascading_cut(x) on a stored node x that is not a root
FibCut(x) ==
    /\ pc = "ops" /\ engine = "fib"
    /\ x \in FibStoredNodes(fib)
    /\ fib.node[x].parent # Null
    /\ LET r == cascading_cut(fib, x, debug)
       IN  fib' = r.heap /\ ret' = r.ret
    /\ UNCHANGED <<tree, engine, cuts, forestA, forestB, skew, debug, bin, stored,
                   prevExtract, keys, items, out, pc>>

\* heap.decrease_key(x, v) on the handle x of a stored node
FibDecreaseKey(x, v) ==
    /\ pc = "ops" /\ engine = "fib"
    /\ x \in FibStoredNodes(fib)
    /\ LET r == fib_decrease_key(fib, x, v)
       IN  fib' = r.heap /\ ret' = r.ret
    /\ UNCHANGED <<tree, engine, cuts, forestA, forestB, skew, debug, bin, stored,
                   prevExtract, keys, items, out, pc>>

NextCut ==
    \/ \E k \in Keys : FibEnqueue(k, Len(fib.node) + 1)
    \/ FibExtractMin
    \/ \E x \in 1..Len(fib.node) : FibCut(x)
    \/ \E x \in 1..Len(fib.node), v \in Keys : FibDecreaseKey(x, v)

\* any interleaving of enqueue, extract_min, cuts and decrease_key
SpecCut == InitCut /\ [][NextCut]_vars

\* the least key a FibonacciHeap stores
FibLeastKey(h) ==
    CHOOSE k \in {h.node[y].key : y \in FibStoredNodes(h)} :
        \A y \in FibStoredNodes(h) : k <= h.node[y].key

\* C13: after decrease_key(h, v) on the handle h of a stored node of a
\* FibonacciHeap, with v strictly less than the least stored key, find_min()
\* returns (v, value of that node) and every other stored pair is still
\* stored
DecreaseKeyMovesMin ==
    [][\A x \in 1..Len(fib.node), v \in Keys :
          (FibDecreaseKey(x, v) /\ v < FibLeastKey(fib)) =>
              /\ ret'.error = None
              /\ fib_find_min(fib') = Returned("find_min", v, fib.node[x].value)
              /\ \A y \in FibStoredNodes(fib) \ {x} :
                    /\ y \in FibStoredNodes(fib')
                    /\ fib'.node[y].key = fib.node[y].key
                    /\ fib'.node[y].value = fib.node[y].value]_vars

\* C15: decrease_key(h, new_key) on a FibonacciHeap with new_key greater
\* than the node's current key fails with KeyIncreaseRejected and leaves
\* the key, the min pointer, the links, marks, degrees and the size as
\* they were
KeyIncreaseIsRejected ==
    [][\A x \in 1..Len(fib.node), v \in Keys :
          (FibDecreaseKey(x, v) /\ v > fib.node[x].key) =>
              /\ ret'.error = "KeyIncreaseRejected"
              /\ fib' = fib]_vars

\* a test builds a tree by hand: the link step of extract_min, lines
\* 153-173, makes the root b a child of the root a, and the min pointer is
\* kept on a root of least key as lines 183-184 do
TestLink(a, b) ==
    /\ pc = "ops" /\ engine = "fib"
    /\ a # b
    /\ \E i, j \in 1..Len(FibRoots) : FibRoots[i] = a /\ FibRoots[j] = b
    /\ fib.node[a].key <= fib.node[b].key
    /\ fib' = [fib EXCEPT !.node = fib_link(fib.node, a, b),
                          !.root = IF fib.root = b THEN a ELSE fib.root]
    /\ ret' = [NoRet EXCEPT !.op = "link"]
    /\ UNCHANGED <<tree, engine, cuts, forestA, forestB, skew, debug, bin, stored,
                   prevExtract, keys, items, out, pc>>

\* a test sets node.marked = True on a stored node that has a parent
TestMark(x) ==
    /\ pc = "ops" /\ engine = "fib"
    /\ x \in FibStoredNodes(fib)
    /\ fib.node[x].parent # Null
    /\ ~fib.node[x].marked
    /\ fib' = [fib EXCEPT !.node[x].marked = TRUE]
    /\ ret' = [NoRet EXCEPT !.op = "mark"]
    /\ UNCHANGED <<tree, engine, cuts, forestA, forestB, skew, debug, bin, stored,
                   prevExtract, keys, items, out, pc>>

NextCascade ==
    \/ \E k \in Keys : FibEnqueue(k, Len(fib.node) + 1)
    \/ \E a, b \in 1..Len(fib.node) : TestLink(a, b)
    \/ \E x \in 1..Len(fib.node) : TestMark(x)
    \/ \E x \in 1..Len(fib.node) : FibCut(x)

\* trees built and marked by hand, and cuts
SpecCascade == InitCut /\ [][NextCascade]_vars

\* C14: in a FibonacciHeap where the root G has the child P and P has the
\* child C, with P marked, cutting C cuts P too: afterwards C and P are in
\* the root ring, have no parent and are not marked
CascadingCutPropagates ==
    [][\A c \in 1..Len(fib.node) :
          LET p == fib.node[c].parent
              g == IF p = Null THEN Null ELSE fib.node[p].parent
              roots == {FibRoots'[i] : i \in 1..Len(FibRoots')}
          IN  (/\ FibCut(c)
               /\ g # Null
               /\ fib.node[g].parent = Null
               /\ fib.node[p].marked) =>
                  /\ ret'.error = None
                  /\ {c, p} \subseteq roots
                  /\ fib'.node[c].parent = Null /\ fib'.node[p].parent = Null
                  /\ ~fib'.node[c].marked /\ ~fib'.node[p].marked]_vars

\* ======================================================================
\* Fibonacci heap: cuts between the turns of sorted()
\* ======================================================================

\* the most pairs handed to the constructor of the heap that is then cut
MaxCutItems == 9
\* the most calls of _cascading_cut the caller makes while it drains the heap
MaxCuts == 3

\* FibonacciHeap([(1, None), ..., (n, None)]) about to be built, drained by
\* sorted() and cut by the caller between two turns of the generator
InitDrainCut ==
    /\ engine = "fib"
    /\ fib = FibInit
    /\ bin = BinInit
    /\ ret = NoRet
    /\ stored = EmptyBag
    /\ prevExtract = Null
    /\ keys \in {[i \in 1..n |-> i] : n \in 0..MaxCutItems}
    /\ items = [i \in 1..Len(keys) |-> <<keys[i], Null>>]
    /\ out = <<>>
    /\ pc = "construct"
    /\ forestA = <<>>
    /\ forestB = <<>>
    /\ skew = SkewInit
    /\ tree = TreeInit
    /\ debug \in BOOLEAN
    /\ cuts = 0

\* heap._cascading_cut(x) on a stored node x that is not a root, called
\* while the generator of sorted() is suspended
SortedCut(x) ==
    /\ pc = "sorted" /\ engine = "fib"
    /\ cuts < MaxCuts
    /\ x \in FibStoredNodes(fib)
    /\ fib.node[x].parent # Null
    /\ LET r == cascading_cut(fib, x, debug)
       IN  fib' = r.heap /\ ret' = r.ret
    /\ cuts' = cuts + 1
    /\ UNCHANGED <<tree, engine, forestA, forestB, skew, debug, bin, stored,
                   prevExtract, keys, items, out, pc>>

NextDrainCut ==
    \/ FibConstruct
    \/ CallSorted
    \/ FibSorted
    \/ \E x \in 1..Len(fib.node) : SortedCut(x)

SpecDrainCut == InitDrainCut /\ [][NextDrainCut]_vars

\* the number of nodes of the subtree rooted at a node of the arena
RECURSIVE FibSubtreeSize(_, _)
FibSubtreeSize(N, x) ==
    1 + IF N[x].child = Null THEN 0
        ELSE LET ring == fib_to_visit(N, N[x].child, <<>>)
                 sizes == [i \in 1..Len(ring) |-> FibSubtreeSize(N, ring[i])]
                 sum[i \in 0..Len(ring)] == IF i = 0 THEN 0 ELSE sum[i - 1] + sizes[i]
             IN  sum[Len(ring)]

\* the Fibonacci numbers: F(1) = F(2) = 1
RECURSIVE Fibonacci(_)
Fibonacci(n) == IF n <= 2 THEN 1 ELSE Fibonacci(n - 1) + Fibonacci(n - 2)

\* C18: in every state reachable by enqueue, extract_min and cuts of
\* non-root nodes, every stored node of degree k is the root of a subtree
\* of at least F(k+2) nodes
FibSizeBound ==
    engine = "fib" =>
        \A x \in FibStoredNodes(fib) :
            FibSubtreeSize(fib.node, x) >= Fibonacci(fib.node[x].degree + 2)

\* C18 witness: a cut has run on a heap that holds a node of degree 3, and
\* has marked the parent of the node it cut
FibSizeBoundWitness ==
    /\ pc = "sorted" /\ ret.op = "cut" /\ ret.error = None
    /\ \E x \in FibStoredNodes(fib) : fib.node[x].degree = 3
    /\ \E y \in FibStoredNodes(fib) : fib.node[y].marked /\ fib.node[y].parent # Null

\* ======================================================================
\* Skew binomial heap  (skew_binomial_heap.py)
\* ======================================================================

\* Node(key, value) of skew_binomial_heap.py
SkewNode(k, v) ==
    [key |-> k, value |-> v, child |-> Null, sibling |-> Null, order |-> 0]

\* Node.link(self, other), lines 23-26: the inherited link, then the order
\* of the root grows by one
skew_node_link(N, self, other) ==
    LET l == bin_link(N, self, other)
    IN  [node |-> [l.node EXCEPT ![l.ret].order = @ + 1], ret |-> l.ret]

\* Node.skew_link with <= in place of < at line 33: a type A link on a tie
skew_link_type_a_on_tie(N, self, other, singleton) ==
    IF singleton = Null THEN skew_node_link(N, self, other)
    ELSE IF N[singleton].key <= N[self].key /\ N[singleton].key <= N[other].key
    THEN [node |-> [N EXCEPT ![singleton].child = self,
                             ![self].sibling = other,
                             ![singleton].order = N[self].order + 1],
          ret  |-> singleton]
    ELSE LET l  == skew_node_link(N, self, other)
             N1 == [l.node EXCEPT ![singleton].sibling = l.node[l.ret].child]
         IN  [node |-> [N1 EXCEPT ![l.ret].child = singleton], ret |-> l.ret]

\* Node.skew_link(self, other, singleton), lines 28-47; the assertion of
\* line 31 holds of every call, by the test of line 100
skew_link(N, self, other, singleton) ==
    IF singleton = Null THEN skew_node_link(N, self, other)
    ELSE IF N[singleton].key < N[self].key /\ N[singleton].key < N[other].key
    THEN \* type A
         [node |-> [N EXCEPT ![singleton].child = self,
                             ![self].sibling = other,
                             ![singleton].order = N[self].order + 1],
          ret  |-> singleton]
    ELSE \* type B
         LET l  == skew_node_link(N, self, other)
             N1 == [l.node EXCEPT ![singleton].sibling = l.node[l.ret].child]
         IN  [node |-> [N1 EXCEPT ![l.ret].child = singleton], ret |-> l.ret]

\* SkewBinomialHeap._insert_singleton(node) on the list self.trees
insert_singleton(N, trees, node) ==
    LET n == Len(trees)
    IN  IF n >= 2 /\ N[trees[n - 1]].order = N[trees[n]].order
        THEN LET l == skew_link(N, trees[n], trees[n - 1], node)
             IN  [node |-> l.node, trees |-> Append(SubSeq(trees, 1, n - 2), l.ret)]
        ELSE [node |-> N, trees |-> Append(trees, node)]

\* SkewBinomialHeap.enqueue(key, value): the heap afterwards and the result
skew_enqueue(h, k, v) ==
    IF h.trees = Unset
    THEN [heap |-> h, ret |-> Raised("enqueue", "AttributeError")]
    ELSE LET id == Len(h.node) + 1
             r  == insert_singleton(Append(h.node, SkewNode(k, v)), h.trees, id)
         IN  [heap |-> [h EXCEPT !.node = r.node, !.trees = r.trees,
                                 !.size = SizeAfterEnqueue(h.size)],
              ret  |-> [NoRet EXCEPT !.op = "enqueue", !.key = k, !.value = v,
                                     !.node = id]]

\* the inherited find_min(), which reads self.forest
skew_find_min(h) == bin_find_min(h)

\* extract_min, line 131: fractures.sort(key=attrgetter("order"),
\* reverse=True), a stable sort
sort_by_order(N, list) ==
    LET sorted[i \in 0..Len(list)] ==
            IF i = 0 THEN <<>>
            ELSE LET acc == sorted[i - 1]
                     k == Cardinality({j \in 1..Len(acc) :
                                          N[acc[j]].order >= N[list[i]].order})
                 IN  SubSeq(acc, 1, k) \o <<list[i]>> \o SubSeq(acc, k + 1, Len(acc))
    IN  sorted[Len(list)]

\* extract_min, lines 137-139 and 144-146: link the last two trees of the
\* list while they have the same order
RECURSIVE skew_normalize(_, _)
skew_normalize(N, list) ==
    LET n == Len(list)
    IN  IF n >= 2 /\ N[list[n - 1]].order = N[list[n]].order
        THEN LET l == skew_node_link(N, list[n], list[n - 1])
             IN  skew_normalize(l.node, Append(SubSeq(list, 1, n - 2), l.ret))
        ELSE [node |-> N, list |-> list]

\* extract_min, lines 168-171: insert the singletons one after the other
RECURSIVE skew_insert_all(_, _, _)
skew_insert_all(N, trees, singletons) ==
    IF singletons = <<>> THEN [node |-> N, trees |-> trees]
    ELSE LET r == insert_singleton(N, trees, singletons[1])
         IN  skew_insert_all(r.node, r.trees, Tail(singletons))

\* the orders of the trees of a list are pairwise different and do not
\* increase from front to back: the assertions of lines 148-152
skew_orders_normal(N, list) ==
    /\ \A i, j \in 1..Len(list) : i < j => N[list[i]].order # N[list[j]].order
    /\ \A i \in 1..Len(list) - 1 : N[list[i]].order >= N[list[i + 1]].order

\* SkewBinomialHeap.extract_min(): the heap afterwards and the result.
\* Line 159 calls _one_bit_full_adder, a method of three parameters besides
\* self, on the class with three arguments: it raises TypeError at the
\* first pair iter_with_rank yields, which it does as soon as one of the
\* two normalized lists holds a tree
skew_extract_min(h, dbg) ==
    IF h.trees = Unset
    THEN [heap |-> h, ret |-> Raised("extract_min", "AttributeError")]
    ELSE IF h.trees = <<>>
    THEN [heap |-> h, ret |-> Raised("extract_min", "IndexError")]
    ELSE LET min_node == bin_min_node(h.node, h.trees, 1, Null)
             min_node_index == bin_index(h.node, h.trees, min_node, 1)
             f  == bin_fracture_node(h.node, min_node)
             trees == Pop(h.trees, min_node_index)
             fractures == sort_by_order(f.node, Reverse(f.fractures))
             singletons1 == SelectSeq(trees, LAMBDA t : f.node[t].order = 0)
             n1 == skew_normalize(f.node,
                                  SelectSeq(trees, LAMBDA t : f.node[t].order # 0))
             singletons2 == SelectSeq(fractures, LAMBDA t : f.node[t].order = 0)
             n2 == skew_normalize(n1.node,
                                  SelectSeq(fractures, LAMBDA t : f.node[t].order # 0))
             \* what the method has changed when an exception leaves it
             left == [h EXCEPT !.node = n2.node, !.trees = trees]
         IN  IF dbg /\ ~(skew_orders_normal(n2.node, n1.list)
                         /\ skew_orders_normal(n2.node, n2.list))
             THEN [heap |-> left, ret |-> Raised("extract_min", "AssertionError")]
             ELSE IF n1.list # <<>> \/ n2.list # <<>>
             THEN [heap |-> left, ret |-> Raised("extract_min", "TypeError")]
             ELSE LET r == skew_insert_all(n2.node, <<>>, singletons1 \o singletons2)
                  IN  [heap |-> [h EXCEPT !.node = r.node, !.trees = r.trees,
                                          !.size = SizeAfterExtract(h.size)],
                       ret  |-> Returned("extract_min", h.node[min_node].key,
                                         h.node[min_node].value)]

\* a freshly constructed SkewBinomialHeap() and a caller about to use it
InitSkew ==
    /\ engine = "skew"
    /\ fib = FibInit
    /\ bin = BinInit
    /\ ret = NoRet
    /\ stored = EmptyBag
    /\ prevExtract = Null
    /\ keys = <<>>
    /\ items = <<>>
    /\ out = <<>>
    /\ pc = "ops"
    /\ forestA = <<>>
    /\ forestB = <<>>
    /\ skew = SkewInit
    /\ tree = TreeInit
    /\ debug \in BOOLEAN
    /\ cuts = 0

\* heap.enqueue(k, v) on the SkewBinomialHeap
SkewEnqueue(k, v) ==
    /\ pc = "ops" /\ engine = "skew"
    /\ Len(skew.node) < MaxNodes
    /\ LET r == skew_enqueue(skew, k, v)
       IN  /\ skew' = r.heap
           /\ IF r.ret.error = None
              THEN AfterEnqueue(k, v, r.ret.node)
              ELSE ret' = r.ret /\ UNCHANGED <<stored, prevExtract>>
    /\ UNCHANGED <<tree, engine, cuts, forestA, forestB, debug, fib, bin, keys, items,
                   out, pc>>

\* heap.extract_min() on the SkewBinomialHeap
SkewExtractMin ==
    /\ pc = "ops" /\ engine = "skew"
    /\ LET r == skew_extract_min(skew, debug)
       IN  skew' = r.heap /\ AfterExtract(r.ret)
    /\ UNCHANGED <<tree, engine, cuts, forestA, forestB, debug, fib, bin, keys, items,
                   out, pc>>

\* heap.find_min() on the SkewBinomialHeap
SkewFindMin ==
    /\ pc = "ops" /\ engine = "skew"
    /\ ret' = skew_find_min(skew)
    /\ UNCHANGED <<tree, engine, cuts, forestA, forestB, skew, debug, fib, bin, stored,
                   prevExtract, keys, items, out, pc>>

\* a caller supplies the missing attribute itself: heap.trees = []
SkewSetTrees ==
    /\ pc = "ops" /\ engine = "skew"
    /\ skew.trees = Unset
    /\ skew' = [skew EXCEPT !.trees = <<>>]
    /\ ret' = [NoRet EXCEPT !.op = "set_trees"]
    /\ UNCHANGED <<tree, engine, cuts, forestA, forestB, debug, fib, bin, stored,
                   prevExtract, keys, items, out, pc>>

NextSkew ==
    \/ \E k \in Keys : SkewEnqueue(k, Len(skew.node) + 1)
    \/ SkewExtractMin
    \/ SkewFindMin
    \/ SkewSetTrees

\* any interleaving of the operations of a SkewBinomialHeap
SpecSkew == InitSkew /\ [][NextSkew]_vars

\* the orders of the trees of the root list, front to back
SkewOrders == [i \in 1..Len(skew.trees) |-> skew.node[skew.trees[i]].order]

\* C19: after every enqueue and every extract_min on a SkewBinomialHeap the
\* orders of the trees of the root list do not increase from front to back,
\* and only the last two trees, those of smallest order, may share an order
SkewOrderBound ==
    (engine = "skew" /\ ret.op \in {"enqueue", "extract_min"}) =>
        /\ skew.trees # Unset
        /\ \A i \in 1..Len(SkewOrders) - 1 : SkewOrders[i] >= SkewOrders[i + 1]
        /\ \A i, j \in 1..Len(SkewOrders) :
              (i < j /\ SkewOrders[i] = SkewOrders[j]) => i = Len(SkewOrders) - 1

\* C20: a SkewBinomialHeap built from any keys has find_min()[0] equal to
\* the smallest of them, and draining it yields the keys in ascending
\* order: every enqueue succeeds, find_min returns a least stored key and
\* extract_min returns a key that is <= every key left
SkewHeapSort ==
    engine = "skew" =>
        /\ ret.op = "enqueue" => ret.error = None
        /\ StoredPairs # {} =>
              /\ skew_find_min(skew).error = None
              /\ \A k \in StoredKeys : skew_find_min(skew).key <= k
        /\ ret.op = "extract_min" =>
              /\ (ret.error # None => ret.error = "IndexError")
              /\ \A k \in StoredKeys : ret.key <= k


\* ======================================================================
\* Heap order and linking of binomial trees
\* ======================================================================

\* the children of a node: the sibling chain that starts at its child
BinChildren(N, n) ==
    LET Chain[c \in 0..Len(N)] ==
            IF c = Null THEN {} ELSE {c} \cup Chain[N[c].sibling]
    IN  Chain[N[n].child]

\* the set of the nodes of the trees of the forest of the BinomialHeap
BinStoredNodes ==
    LET s == BinForestNodes(bin.node, bin.forest, 1)
    IN  {s[i] : i \in 1..Len(s)}

\* C21: in every state reachable by enqueue and extract_min on a
\* BinomialHeap, every node of every tree of the forest has a key <= the
\* key of each of its children
BinHeapOrder ==
    engine = "bin" =>
        \A n \in BinStoredNodes :
            \A c \in BinChildren(bin.node, n) : bin.node[n].key <= bin.node[c].key

\* an extract_min has left a tree whose root has a child of larger key
BinHeapOrderWitness ==
    /\ engine = "bin"
    /\ Did("extract_min")
    /\ \E n \in BinStoredNodes :
          \E c \in BinChildren(bin.node, n) : bin.node[n].key < bin.node[c].key


\* ----------------------------------------- link and the adder on their own

\* the most nodes the three forests hold together when link and the full
\* adder are applied on their own
MaxLinkNodes == 5

\* the second forest is complete
EndList2 ==
    /\ pc = "list2"
    /\ pc' = "list3"
    /\ UNCHANGED <<tree, engine, cuts, forestA, forestB, skew, debug, fib, bin, ret, stored,
                   prevExtract, keys, items, out>>

\* a third forest, self.forest, grows by one node
GrowList3(k) ==
    /\ pc = "list3"
    /\ LET r == bin_grow(bin.node, bin.forest, k, Len(bin.node) + 1)
       IN  bin' = [bin EXCEPT !.node = r.node, !.forest = r.result]
    /\ UNCHANGED <<tree, engine, cuts, forestA, forestB, skew, debug, fib, ret, stored,
                   prevExtract, keys, items, out, pc>>

\* a.link(b) with a the tree at index i of the first forest and b the tree
\* at index j of the second
BinLink(i, j) ==
    /\ pc = "list3"
    /\ i \in 1..Len(forestA) /\ forestA[i] # Null
    /\ j \in 1..Len(forestB) /\ forestB[j] # Null
    /\ LET r == bin_link(bin.node, forestA[i], forestB[j])
       IN  /\ bin' = [bin EXCEPT !.node = r.node]
           /\ ret' = [NoRet EXCEPT !.op = "link", !.node = r.ret]
    /\ pc' = "linked"
    /\ UNCHANGED <<tree, engine, cuts, forestA, forestB, skew, debug, fib, stored,
                   prevExtract, keys, items, out>>

\* t, carry = self._one_bit_full_adder(a, b, carry) on the entries at index
\* i of the three forests; afterwards self.forest is [t, carry]
FullAdder(i) ==
    /\ pc = "list3"
    /\ LET r == one_bit_full_adder(bin.node, ZipGet(forestA, i), ZipGet(forestB, i),
                                   ZipGet(bin.forest, i))
       IN  bin' = [bin EXCEPT !.node = r.node, !.forest = <<r.t, r.carry>>]
    /\ ret' = [NoRet EXCEPT !.op = "adder"]
    /\ pc' = "adder"
    /\ UNCHANGED <<tree, engine, cuts, forestA, forestB, skew, debug, fib, stored,
                   prevExtract, keys, items, out>>

NextLink ==
    \/ \E k \in Keys : Len(bin.node) < MaxLinkNodes /\ GrowList1(k)
    \/ EndList1
    \/ \E k \in Keys : Len(bin.node) < MaxLinkNodes /\ GrowList2(k)
    \/ EndList2
    \/ \E k \in Keys : Len(bin.node) < MaxLinkNodes /\ GrowList3(k)
    \/ \E i, j \in 1..MaxLinkNodes : BinLink(i, j)
    \/ \E i \in 1..MaxLinkNodes : FullAdder(i)

\* link and _one_bit_full_adder on the trees of three forests that enqueue
\* builds
SpecLink == InitAdd /\ [][NextLink]_vars

\* C22: a.link(b) returns the root of smaller key, a when the keys are
\* equal; the other root becomes its leftmost child, with the winner's
\* previous leftmost child as sibling; no other child or sibling link
\* changes, and the result holds exactly the nodes of both trees
LinkRule ==
    [][\A i, j \in 1..MaxLinkNodes :
         BinLink(i, j) =>
            LET a == forestA[i]
                b == forestB[j]
                N == bin.node
                N2 == bin'.node
                root == ret'.node
                loser == IF root = a THEN b ELSE a
                before == <<a>> \o BinNodesOf(N, N[a].child)
                              \o <<b>> \o BinNodesOf(N, N[b].child)
                after == <<root>> \o BinNodesOf(N2, N2[root].child)
            IN  /\ root = IF N[a].key <= N[b].key THEN a ELSE b
                /\ N2[root].child = loser
                /\ N2[loser].sibling = N[root].child
                /\ DOMAIN N2 = DOMAIN N
                /\ \A n \in DOMAIN N :
                      /\ N2[n].key = N[n].key /\ N2[n].value = N[n].value
                      /\ n # root => N2[n].child = N[n].child
                      /\ n # loser => N2[n].sibling = N[n].sibling
                /\ Len(after) = Len(before)
                /\ {after[n] : n \in 1..Len(after)} = {before[n] : n \in 1..Len(before)}
      ]_vars

\* two trees of two nodes with roots of equal key have been linked, and the
\* receiver is the root
LinkRuleWitness ==
    /\ pc = "linked"
    /\ Len(forestA) = 2 /\ Len(forestB) = 2
    /\ ret.node = forestA[2]
    /\ bin.node[ret.node].child = forestB[2]
    /\ bin.node[forestA[2]].key = bin.node[forestB[2]].key
    /\ BinTreeSize(bin.node, ret.node) = 4


\* C23: _one_bit_full_adder on (a, b, carry) of the same order: with zero or
\* one input present it is returned as this position's tree, with no carry
\* and nothing linked; with two present the position stays empty and the
\* carry-out is their link, of the next order; with three present one of
\* them stays as this position's tree and the carry-out is the link of the
\* other two; every node of the inputs occurs once in the two outputs
AdderRule ==
    [][\A i \in 1..MaxLinkNodes :
         FullAdder(i) =>
            LET N == bin.node
                N2 == bin'.node
                ins == {ZipGet(forestA, i), ZipGet(forestB, i),
                        ZipGet(bin.forest, i)} \ {Null}
                present == (IF ZipGet(forestA, i) # Null THEN 1 ELSE 0)
                           + (IF ZipGet(forestB, i) # Null THEN 1 ELSE 0)
                           + (IF ZipGet(bin.forest, i) # Null THEN 1 ELSE 0)
                t == bin'.forest[1]
                carry == bin'.forest[2]
                Tree(M, r) == IF r = Null THEN <<>>
                              ELSE <<r>> \o BinNodesOf(M, M[r].child)
                outs == Tree(N2, t) \o Tree(N2, carry)
                IsLink(rest) ==
                    \E x, y \in rest :
                        /\ x # y
                        /\ bin_link(N, x, y) = [node |-> N2, ret |-> carry]
                        /\ BinOrder(N2, carry) = i
            IN  /\ Cardinality(ins) = present
                /\ present = 0 => (t = Null /\ carry = Null /\ N2 = N)
                /\ present = 1 => (ins = {t} /\ carry = Null /\ N2 = N)
                /\ present = 2 => (t = Null /\ IsLink(ins))
                /\ present = 3 => (t \in ins /\ IsLink(ins \ {t}))
                /\ \A n \in DOMAIN outs : \A m \in DOMAIN outs :
                      outs[n] = outs[m] => n = m
                /\ {outs[n] : n \in DOMAIN outs}
                       = UNION {{n} \cup {(Tree(N, n))[m] : m \in DOMAIN Tree(N, n)}
                                    : n \in ins}
      ]_vars

\* the adder has been given three trees of order 0, out of forests of 3, 1
\* and 1 nodes: one of them is this position's tree and the carry-out is a
\* tree of order 1
AdderRuleWitness ==
    /\ pc = "adder"
    /\ Len(forestA) = 2 /\ forestA[1] # Null /\ forestA[2] # Null
    /\ Len(forestB) = 1 /\ forestB[1] # Null
    /\ bin.forest[1] # Null /\ BinOrder(bin.node, bin.forest[1]) = 0
    /\ bin.forest[2] # Null /\ BinOrder(bin.node, bin.forest[2]) = 1


\* ======================================================================
\* Fibonacci heap: the structure of the rings
\* ======================================================================

\* the members of the child ring of a node, from its child pointer
FibChildren(N, p) ==
    IF N[p].child = Null THEN <<>> ELSE fib_to_visit(N, N[p].child, <<>>)

\* C24: after every FibonacciHeap.extract_min that leaves the heap
\* non-empty, self.root is a node of the root ring, with no parent and in no
\* stored node's child ring, and its key is <= every stored key, also when
\* stored keys are equal
FibMinOnRoot ==
    (engine = "fib" /\ Did("extract_min") /\ fib.root # Null) =>
        /\ fib.node[fib.root].parent = Null
        /\ \A p \in FibStoredNodes(fib) :
              \A i \in 1..Len(FibChildren(fib.node, p)) :
                  FibChildren(fib.node, p)[i] # fib.root
        /\ \A k \in StoredKeys : fib.node[fib.root].key <= k

\* extract_min has linked two roots of equal key, and the min pointer is on
\* the one that stayed a root
FibMinOnRootWitness ==
    /\ engine = "fib" /\ Did("extract_min") /\ fib.root # Null
    /\ fib.node[fib.root].child # Null
    /\ fib.node[fib.node[fib.root].child].key = fib.node[fib.root].key


\* the handles of the pairs enqueued and not yet extracted: the caller tags
\* the pair it enqueues with the index of the node enqueue returns
StoredHandles == {p[2] : p \in StoredPairs}

\* C25: in every reachable state of a FibonacciHeap each stored node is
\* either in the root ring, and then its parent is None and it is in no
\* child ring, or in the child ring of exactly one stored node p, and then
\* its parent field is p
FibPlacement ==
    engine = "fib" =>
        \A x \in StoredHandles :
            LET inRoots == \E i \in 1..Len(FibRoots) : FibRoots[i] = x
                parents == {p \in StoredHandles :
                               \E i \in 1..Len(FibChildren(fib.node, p)) :
                                   FibChildren(fib.node, p)[i] = x}
            IN  \/ inRoots /\ parents = {} /\ fib.node[x].parent = Null
                \/ ~inRoots /\ parents = {fib.node[x].parent}

\* a cut has moved the only child of a root to the root ring, next to its
\* former parent and a third root
FibPlacementWitness ==
    /\ engine = "fib" /\ ret.op = "cut" /\ ret.error = None
    /\ \E i \in 1..Len(FibRoots) : fib.node[FibRoots[i]].marked
    /\ Len(FibRoots) = 3
    /\ Cardinality(StoredHandles) = 3


\* C26: in every state reachable by enqueue, extract_min and cuts, the
\* degree field of every stored node of a FibonacciHeap is the number of
\* nodes of its child ring, and it is 0 exactly when child is None
FibDegreeCounts ==
    engine = "fib" =>
        \A x \in StoredHandles :
            /\ fib.node[x].degree = Len(FibChildren(fib.node, x))
            /\ fib.node[x].degree = 0 <=> fib.node[x].child = Null

\* a cut has taken the only child of a node: its degree is back to 0 and
\* its child pointer is None
FibDegreeCountsWitness ==
    /\ engine = "fib" /\ ret.op = "cut" /\ ret.error = None
    /\ \E x \in StoredHandles :
          /\ fib.node[x].marked
          /\ fib.node[x].degree = 0
          /\ fib.node[x].child = Null


\* C27: in every reachable state of a FibonacciHeap, every stored node n has
\* n.next.prev = n and n.prev.next = n; following next from self.root visits
\* every root once and comes back to self.root; following next from the
\* child of a node visits exactly the children of that node once and comes
\* back; a node alone in its ring has next = prev = itself
FibRingsWellFormed ==
    engine = "fib" =>
        LET N == fib.node
            \* next followed members-many times from start passes through
            \* exactly the members and ends on start
            Ring(start, members) ==
                LET n == Cardinality(members)
                    Nth[k \in 0..n] == IF k = 0 THEN start ELSE N[Nth[k - 1]].next
                IN  /\ {Nth[k] : k \in 0..(n - 1)} = members
                    /\ Nth[n] = start
        IN  /\ \A n \in StoredHandles :
                  /\ N[N[n].next].prev = n
                  /\ N[N[n].prev].next = n
                  /\ (N[n].next = n \/ N[n].prev = n) => (N[n].next = n /\ N[n].prev = n)
                  /\ IF N[n].child = Null
                     THEN \A c \in StoredHandles : N[c].parent # n
                     ELSE Ring(N[n].child, {c \in StoredHandles : N[c].parent = n})
            /\ IF fib.root = Null THEN StoredHandles = {}
               ELSE Ring(fib.root, {r \in StoredHandles : N[r].parent = Null})

\* a cut has left a root ring of three nodes, and before it an extract_min
\* had made one of them the child of another
FibRingsWitness ==
    /\ engine = "fib" /\ ret.op = "cut" /\ ret.error = None
    /\ Cardinality(StoredHandles) = 3
    /\ \A n \in StoredHandles : fib.node[n].parent = Null /\ fib.node[n].next # n


\* C28: every stored node of a FibonacciHeap is an unmarked root, an
\* unmarked child or a marked child, after any sequence of enqueue,
\* extract_min and cuts: no member of the root ring is ever marked
FibNoMarkedRoot ==
    engine = "fib" =>
        \A x \in StoredHandles : fib.node[x].parent = Null => ~fib.node[x].marked


\* ======================================================================
\* Fibonacci heap: one link step of the consolidation
\* ======================================================================

\* extract_min, lines 143-176, for the visited root curr that finds the root
\* other of the same degree in the table, and then lines 183-184
ConsolidateStep(curr, other) ==
    /\ pc \in {"ops", "linking"} /\ engine = "fib"
    /\ curr # other
    /\ fib.node[curr].degree = fib.node[other].degree
    /\ fib.node[curr].parent = Null /\ fib.node[other].parent = Null
    /\ LET roots == FibRoots
       IN  \E i, j \in 1..Len(roots) : roots[i] = curr /\ roots[j] = other
    /\ LET minimum == fib_minimum(fib.node, curr, other)
           maximum == fib_maximum(fib.node, curr, other)
           N2 == fib_link(fib.node, minimum, maximum)
       IN  /\ fib' = [fib EXCEPT !.node = N2,
                                 !.root = fib_update_root(N2, fib.root, minimum)]
           /\ ret' = [NoRet EXCEPT !.op = "link", !.node = minimum, !.value = maximum]
    /\ pc' = "linking"
    /\ UNCHANGED <<tree, engine, cuts, forestA, forestB, skew, debug, bin, stored,
                   prevExtract, keys, items, out>>

\* heap._cascading_cut(x) on a node x that is not a root, between two link
\* steps and while no node is marked
StepCut(x) ==
    /\ pc = "linking" /\ engine = "fib"
    /\ x \in 1..Len(fib.node)
    /\ fib.node[x].parent # Null
    /\ \A n \in 1..Len(fib.node) : ~fib.node[n].marked
    /\ LET r == cascading_cut(fib, x, debug)
       IN  fib' = r.heap /\ ret' = r.ret
    /\ UNCHANGED <<tree, engine, cuts, forestA, forestB, skew, debug, bin, stored,
                   prevExtract, keys, items, out, pc>>

\* the roots are enqueued first, in non-decreasing order of key; the link
\* steps then take them in any order
NextConsolidate ==
    \/ \E k \in Keys :
          /\ fib.node # <<>> => fib.node[Len(fib.node)].key <= k
          /\ FibEnqueue(k, Len(fib.node) + 1)
    \/ \E curr, other \in 1..Len(fib.node) : ConsolidateStep(curr, other)
    \/ \E x \in 1..Len(fib.node) : StepCut(x)

\* roots enqueued and then linked one step at a time, with cuts in between
SpecConsolidate == InitCut /\ [][NextConsolidate]_vars

\* C29: when consolidation links two roots of equal degree, the root of
\* smaller key becomes the parent; the other leaves the root ring and joins
\* the parent's child ring with its parent set and its mark cleared; the
\* parent's degree grows by 1; with equal keys the visited node stays root
\* and the other node becomes the child
ConsolidationLink ==
    [][\A curr, other \in 1..Len(fib.node) :
         (ret'.op = "link" /\ ret'.node \in {curr, other}
                           /\ ret'.value \in {curr, other, ret'.node}
                           /\ ConsolidateStep(curr, other)) =>
            LET N == fib.node
                N2 == fib'.node
                par == ret'.node
                ch == ret'.value
                Set(s) == {s[i] : i \in 1..Len(s)}
                roots == FibRoots
                roots2 == FibRoots'
                children == FibChildren(N, par)
                children2 == FibChildren(N2, par)
            IN  /\ {par, ch} = {curr, other}
                /\ par # ch
                /\ N[par].key <= N[ch].key
                /\ N[curr].key = N[other].key => par = curr
                /\ Set(roots2) = Set(roots) \ {ch}
                /\ Len(roots2) = Len(roots) - 1
                /\ Set(children2) = Set(children) \cup {ch}
                /\ Len(children2) = Len(children) + 1
                /\ N2[ch].parent = par
                /\ ~N2[ch].marked
                /\ N2[par].degree = N[par].degree + 1
                /\ N2[par].parent = Null
      ]_vars

\* two roots of degree 1 and equal key have been linked
ConsolidationLinkWitness ==
    /\ engine = "fib" /\ ret.op = "link"
    /\ fib.node[ret.node].degree = 2
    /\ fib.node[ret.node].key = fib.node[ret.value].key
    /\ fib.node[ret.value].degree = 1


\* C30: a cut of a non-root node x with parent p takes x out of the child
\* ring of p (p.child goes to a remaining child, or to None when x was the
\* only child), subtracts 1 from p.degree, clears the mark and the parent of
\* x and puts x in the root ring; the subtree of x is untouched, and so are
\* the keys, values, parent, child, degree and mark of every node that is
\* neither cut nor the parent of a cut node
CutStep ==
    [][\A x \in 1..Len(fib.node) :
         (ret'.op = "cut" /\ ret'.error = None /\ SortedCut(x)) =>
            LET N == fib.node
                N2 == fib'.node
                p == N[x].parent
                Set(s) == {s[i] : i \in 1..Len(s)}
                \* the nodes _cascading_cut is called on
                Chain[n \in 1..Len(N)] ==
                    {n} \cup (IF N[n].parent # Null /\ N[N[n].parent].marked
                              THEN Chain[N[n].parent] ELSE {})
                touched == Chain[x] \cup {N[n].parent : n \in Chain[x]}
                Anc[n \in 1..Len(N)] ==
                    IF N[n].parent = Null THEN {}
                    ELSE {N[n].parent} \cup Anc[N[n].parent]
                children == FibChildren(N, p)
                children2 == FibChildren(N2, p)
                roots2 == FibRoots'
            IN  /\ Set(children2) = Set(children) \ {x}
                /\ Len(children2) = Len(children) - 1
                /\ N2[p].child = IF Len(children) = 1 THEN Null
                                 ELSE IF N[p].child = x THEN N[x].next
                                 ELSE N[p].child
                /\ N2[p].degree = N[p].degree - 1
                /\ ~N2[x].marked
                /\ N2[x].parent = Null
                /\ x \in Set(roots2)
                /\ Set(roots2) = Set(FibRoots) \cup {n \in Chain[x] : N[n].parent # Null}
                /\ N2[x].child = N[x].child /\ N2[x].degree = N[x].degree
                /\ \A d \in 1..Len(N) : x \in Anc[d] => N2[d] = N[d]
                /\ \A n \in 1..Len(N) :
                      /\ N2[n].key = N[n].key /\ N2[n].value = N[n].value
                      /\ n \notin touched =>
                            /\ N2[n].parent = N[n].parent
                            /\ N2[n].child = N[n].child
                            /\ N2[n].degree = N[n].degree
                            /\ N2[n].marked = N[n].marked
      ]_vars

\* a cut has taken one of three children from its parent, which is itself a
\* child, and has left that parent marked
CutStepWitness ==
    /\ engine = "fib" /\ ret.op = "cut" /\ ret.error = None
    /\ \E n \in FibStoredNodes(fib) :
          /\ fib.node[n].parent # Null
          /\ fib.node[n].marked
          /\ fib.node[n].degree = 1
          /\ fib.node[fib.node[n].parent].degree >= 2

\* ======================================================================
\* Fibonacci heap: the cascading-cut rule
\* ======================================================================

\* C31: after a node is cut, its former parent is cut too when it is a
\* non-root that was already marked, and otherwise it is marked afterwards;
\* the nodes cut are exactly this chain, which ends below the first ancestor
\* that is unmarked or a root, so there are at most as many cuts as the node
\* has ancestors
CascadingCutRule ==
    [][\A x \in 1..Len(fib.node) :
         (ret'.op = "cut" /\ ret'.error = None /\ SortedCut(x)) =>
            LET N == fib.node
                N2 == fib'.node
                Set(s) == {s[i] : i \in 1..Len(s)}
                \* the nodes the rule cuts, from x upwards
                Cut[n \in 1..Len(N)] ==
                    {n} \cup (IF /\ N[N[n].parent].parent # Null
                                 /\ N[N[n].parent].marked
                              THEN Cut[N[n].parent] ELSE {})
                Depth[n \in 1..Len(N)] ==
                    IF N[n].parent = Null THEN 0 ELSE 1 + Depth[N[n].parent]
                \* the first ancestor that is not cut
                stop == CHOOSE s \in 1..Len(N) :
                            s \notin Cut[x] /\ \E n \in Cut[x] : N[n].parent = s
            IN  /\ \A n \in Cut[x] :
                      /\ N2[n].parent = Null
                      /\ ~N2[n].marked
                /\ Set(FibRoots') = Set(FibRoots) \cup Cut[x]
                /\ N2[stop].parent = N[stop].parent
                /\ N2[stop].marked
                /\ Cardinality(Cut[x]) <= Depth[x]
      ]_vars

\* ======================================================================
\* Fibonacci heap: insertion and the splice of two rings
\* ======================================================================

NewNode(k) ==
    /\ pc = "ops" /\ engine = "fib"
    /\ Len(fib.node) < MaxNodes
    /\ fib.node # <<>> => fib.node[Len(fib.node)].key <= k
    /\ LET id == Len(fib.node) + 1
       IN  /\ fib' = [fib EXCEPT !.node = Append(fib.node, FibNode(k, id, id))]
           /\ ret' = [NoRet EXCEPT !.op = "node", !.node = id]
    /\ UNCHANGED <<tree, engine, cuts, forestA, forestB, skew, debug, bin, stored,
                   prevExtract, keys, items, out, pc>>

\* the test calls FibonacciHeap._merge_circular_doubly_linked_lists(a, b),
\* each argument None or a node, on nodes of two different rings; the
\* result records the two arguments and the node returned
MergeRings(a, b) ==
    /\ pc = "ops" /\ engine = "fib"
    /\ (a # Null /\ b # Null) =>
          LET ring == fib_to_visit(fib.node, a, <<>>)
          IN  \A i \in 1..Len(ring) : ring[i] # b
    /\ LET m == merge_circular_doubly_linked_lists(fib.node, a, b)
       IN  /\ fib' = [fib EXCEPT !.node = m.node]
           /\ ret' = [NoRet EXCEPT !.op = "merge", !.key = a, !.value = b,
                                   !.node = m.ret]
    /\ UNCHANGED <<tree, engine, cuts, forestA, forestB, skew, debug, bin, stored,
                   prevExtract, keys, items, out, pc>>

NextMerge ==
    \/ \E k \in Keys : NewNode(k)
    \/ \E a, b \in 0..Len(fib.node) : MergeRings(a, b)

\* rings made by hand from single nodes by repeated merges
SpecMerge == Init /\ [][NextMerge]_vars

\* C33: _merge_circular_doubly_linked_lists(n1, n2) on nodes of two disjoint
\* rings leaves one ring that holds exactly the nodes of both, each once,
\* with prev the inverse of next, and returns the one of n1 and n2 with the
\* smaller key, n1 when the keys are equal; no other node changes; with one
\* argument None it returns the other and changes nothing, and with both
\* None it returns None
RingMerge ==
    [][\A a, b \in 0..Len(fib.node) :
         (ret'.op = "merge" /\ ret'.key = a /\ ret'.value = b /\ MergeRings(a, b)) =>
            LET N == fib.node
                N2 == fib'.node
                Set(s) == {s[i] : i \in 1..Len(s)}
                members == Set(fib_to_visit(N, a, <<>>)) \cup Set(fib_to_visit(N, b, <<>>))
                n == Cardinality(members)
                Nth[k \in 0..n] == IF k = 0 THEN ret'.node ELSE N2[Nth[k - 1]].next
            IN  IF a = Null \/ b = Null
                THEN /\ ret'.node = IF a = Null THEN b ELSE a
                     /\ N2 = N
                ELSE /\ ret'.node = IF N[b].key < N[a].key THEN b ELSE a
                     /\ {Nth[k] : k \in 0..(n - 1)} = members
                     /\ Nth[n] = ret'.node
                     /\ \A x \in members :
                           /\ N2[N2[x].next].prev = x
                           /\ N2[N2[x].prev].next = x
                     /\ \A x \in 1..Len(N) :
                           /\ x \notin members => N2[x] = N[x]
                           /\ N2[x].key = N[x].key /\ N2[x].value = N[x].value
                           /\ N2[x].parent = N[x].parent /\ N2[x].child = N[x].child
      ]_vars

\* a merge of two nodes of equal key has made a ring of four nodes and
\* returned its first argument, which was created after the second
RingMergeWitness ==
    /\ engine = "fib" /\ ret.op = "merge"
    /\ ret.key # Null /\ ret.value # Null
    /\ ret.node = ret.key /\ ret.key > ret.value
    /\ fib.node[ret.key].key = fib.node[ret.value].key
    /\ Len(fib_to_visit(fib.node, ret.node, <<>>)) = 4
    /\ \E x \in 1..Len(fib.node) : fib.node[x].key > fib.node[ret.node].key

\* ======================================================================
\* Skew binomial heap: the skew link
\* ======================================================================

\* the most nodes of the trees that are linked by hand
MaxSkewNodes == 5

\* a test creates Node(k, v) and keeps it in its list of trees; it creates
\* its nodes in non-decreasing order of key, all of them before it links
NewSkewNode(k) ==
    /\ pc = "ops" /\ engine = "skew"
    /\ Len(skew.node) < MaxSkewNodes
    /\ Len(forestA) = Len(skew.node)
    /\ skew.node # <<>> => skew.node[Len(skew.node)].key <= k
    /\ LET id == Len(skew.node) + 1
       IN  /\ skew' = [skew EXCEPT !.node = Append(skew.node, SkewNode(k, id))]
           /\ forestA' = Append(forestA, id)
           /\ ret' = [NoRet EXCEPT !.op = "node", !.node = id]
    /\ UNCHANGED <<tree, engine, cuts, forestB, debug, fib, bin, stored, prevExtract,
                   keys, items, out, pc>>

\* the test calls t1.skew_link(t2, s) on two trees of its list that have the
\* same order and on a third that is a single node, or on None (s = 0), and
\* keeps the tree returned in place of the arguments, the list in the order
\* in which the roots were created
SkewLinkTrees(i, j, s) ==
    /\ pc = "ops" /\ engine = "skew"
    /\ i # j /\ s # i /\ s # j
    /\ skew.node[forestA[i]].order = skew.node[forestA[j]].order
    /\ s # 0 => /\ skew.node[forestA[s]].order = 0
                /\ skew.node[forestA[s]].child = Null
    /\ LET sn == IF s = 0 THEN Null ELSE forestA[s]
           l  == skew_link(skew.node, forestA[i], forestA[j], sn)
       IN  /\ skew' = [skew EXCEPT !.node = l.node]
           /\ forestA' = InsertAscending(l.ret, SelectSeq(forestA,
                                   LAMBDA t : t \notin {forestA[i], forestA[j], sn}))
           /\ ret' = [NoRet EXCEPT !.op = "skew_link", !.node = l.ret]
    /\ UNCHANGED <<tree, engine, cuts, forestB, debug, fib, bin, stored, prevExtract,
                   keys, items, out, pc>>

NextSkewLink ==
    \/ \E k \in Keys : NewSkewNode(k)
    \/ \E i, j \in 1..Len(forestA), s \in 0..Len(forestA) : SkewLinkTrees(i, j, s)

\* a test about to build trees by hand, with assert statements executed
InitSkewLink == InitSkew /\ debug = TRUE

\* trees built by hand from single nodes by links and skew links
SpecSkewLink == InitSkewLink /\ [][NextSkewLink]_vars

\* C34: skew_link on two trees t1, t2 of equal order r and a single node s
\* returns a tree of order r + 1: when the key of s is strictly less than
\* the keys of both roots, s is the root and t1, t2 are its two children;
\* otherwise the root is the one of t1, t2 with the smaller key (t1 on a
\* tie) and its children are s, the other root and the children it had;
\* the result is in heap order and holds exactly the nodes of t1, t2 and s,
\* each once
SkewLinkRule ==
    [][\A i, j, s \in 1..Len(forestA) :
         (ret'.op = "skew_link" /\ SkewLinkTrees(i, j, s)) =>
            LET N == skew.node
                N2 == skew'.node
                t1 == forestA[i]
                t2 == forestA[j]
                sn == forestA[s]
                root == ret'.node
                Set(q) == {q[n] : n \in 1..Len(q)}
                before == BinNodesOf(N, t1) \o BinNodesOf(N, t2) \o <<sn>>
                after == BinNodesOf(N2, root)
                winner == IF N[t1].key > N[t2].key THEN t2 ELSE t1
            IN  /\ N2[root].order = N[t1].order + 1
                /\ IF N[sn].key < N[t1].key /\ N[sn].key < N[t2].key
                   THEN /\ root = sn
                        /\ BinChildren(N2, root) = {t1, t2}
                        /\ N2[t1].order = N[t1].order /\ N2[t2].order = N[t2].order
                   ELSE /\ root = winner
                        /\ BinChildren(N2, root) =
                              ({sn, t1, t2} \cup BinChildren(N, winner)) \ {winner}
                        /\ N2[root].child = sn
                /\ \A n \in Set(after) :
                      \A c \in BinChildren(N2, n) : N2[n].key <= N2[c].key
                /\ Set(after) = Set(before)
                /\ Len(after) = Len(before)
                /\ \A n \in 1..Len(N) :
                      N2[n].key = N[n].key /\ N2[n].value = N[n].value
      ]_vars

\* a skew link of two trees of order 1 whose roots have the same key, with
\* a single node of that key as well, has returned one of the two roots
\* with three children
SkewLinkRuleWitness ==
    /\ engine = "skew" /\ ret.op = "skew_link"
    /\ skew.node[ret.node].order = 2
    /\ Cardinality(BinChildren(skew.node, ret.node)) = 3
    /\ \A c \in BinChildren(skew.node, ret.node) :
          skew.node[c].key = skew.node[ret.node].key
    /\ \E c \in BinChildren(skew.node, ret.node) : skew.node[c].order = 1

\* C35: SkewBinomialHeap.enqueue succeeds and does a constant amount of
\* work: when the last two trees of the root list, those of smallest order,
\* have the same order it replaces them by the one tree of the next order
\* that a single skew link with the new node returns, and otherwise it only
\* appends the new node as a tree of order 0; the other trees of the root
\* list and all their nodes are unchanged
SkewConstantInsert ==
    [][\A k \in Keys :
         (ret'.op = "enqueue" /\ SkewEnqueue(k, Len(skew.node) + 1)) =>
            /\ ret'.error = None
            /\ skew.trees # Unset
            /\ LET N == skew.node
                   N2 == skew'.node
                   id == Len(N) + 1
                   trees == skew.trees
                   trees2 == skew'.trees
                   n == Len(trees)
                   Set(q) == {q[i] : i \in 1..Len(q)}
                   \* the nodes of the trees that take no part in a link
                   rest == UNION {Set(BinNodesOf(N, trees[i])) : i \in 1..(n - 2)}
               IN  IF n >= 2 /\ N[trees[n - 1]].order = N[trees[n]].order
                   THEN /\ Len(trees2) = n - 1
                        /\ SubSeq(trees2, 1, n - 2) = SubSeq(trees, 1, n - 2)
                        /\ trees2[n - 1] \in {trees[n - 1], trees[n], id}
                        /\ N2[trees2[n - 1]].order = N[trees[n]].order + 1
                        /\ Set(BinNodesOf(N2, trees2[n - 1])) =
                              Set(BinNodesOf(N, trees[n - 1]))
                                 \cup Set(BinNodesOf(N, trees[n])) \cup {id}
                        /\ \A x \in rest : N2[x] = N[x]
                   ELSE /\ trees2 = Append(trees, id)
                        /\ N2[id].order = 0 /\ N2[id].child = Null
                        /\ \A x \in 1..Len(N) : N2[x] = N[x]
      ]_vars

\* ======================================================================
\* Fibonacci heap: termination of contains, size and conservation of nodes
\* ======================================================================

\* C36: on a FibonacciHeap that is not empty, in any state reached by
\* enqueue and extract_min, `x in heap` returns for every x, and it returns
\* False for an x that is not a stored key
FibContainsTerminates ==
    (engine = "fib" /\ ret.op = "contains" /\ StoredPairs # {}) =>
        /\ ret.found \in {"True", "False"}
        /\ ret.key \notin StoredKeys => ret.found = "False"

\* C37: in every reachable state of a BinomialHeap and of a FibonacciHeap
\* the traversal from the forest list through child and sibling links, or
\* from self.root through the root ring and the child rings, meets exactly
\* the stored nodes, each once, and len(heap) is their number; len(heap) is
\* 0 exactly when the forest list is empty, or self.root is None
SizeMatchesContent ==
    LET Set(q) == {q[i] : i \in 1..Len(q)}
        N == fib.node
        \* a node and the nodes of the subtrees of its child ring
        Sub[n \in 1..Len(N)] ==
            LET ch == FibChildren(N, n)
                Cat[i \in 0..Len(ch)] ==
                    IF i = 0 THEN <<n>> ELSE Cat[i - 1] \o Sub[ch[i]]
            IN  Cat[Len(ch)]
        roots == FibRoots
        All[i \in 0..Len(roots)] ==
            IF i = 0 THEN <<>> ELSE All[i - 1] \o Sub[roots[i]]
        reached == IF engine = "fib" THEN All[Len(roots)]
                   ELSE BinForestNodes(bin.node, bin.forest, 1)
    IN  (engine \in Engines /\ pc = "ops") =>
            /\ Len(reached) = HeapLen
            /\ Cardinality(Set(reached)) = Len(reached)
            /\ Set(reached) = StoredHandles
            /\ (HeapLen = 0) <=> HeapEmpty

\* an extract_min has left a BinomialHeap of three nodes, one of them a
\* child, whose forest list has a tree of one node and a tree of two
SizeMatchesContentWitness ==
    /\ engine = "bin" /\ Did("extract_min")
    /\ bin.size = 3
    /\ Len(bin.forest) = 2
    /\ \A i \in 1..2 : bin.forest[i] # Null

\* C38: FibonacciHeap.extract_min conserves the nodes: the traversal from
\* self.root through the root ring and the child rings meets afterwards
\* exactly the nodes it met before except the node self.root pointed to, the
\* node whose pair is returned, each once; the keys and values of the nodes
\* that remain are unchanged (extract_min called by the caller or by a turn
\* of sorted())
FibExtractConserves ==
    [][(/\ ret'.op = "extract_min" /\ ret'.error = None /\ engine = "fib"
        /\ (FibExtractMin \/ (sorted_continues(fib_len(fib)) /\ FibSorted))) =>
            LET Set(q) == {q[i] : i \in 1..Len(q)}
                Reach(M, root) ==
                    LET Sub[n \in 1..Len(M)] ==
                            LET ch == FibChildren(M, n)
                                Cat[i \in 0..Len(ch)] ==
                                    IF i = 0 THEN <<n>> ELSE Cat[i - 1] \o Sub[ch[i]]
                            IN  Cat[Len(ch)]
                        roots == IF root = Null THEN <<>>
                                 ELSE fib_to_visit(M, root, <<>>)
                        All[i \in 0..Len(roots)] ==
                            IF i = 0 THEN <<>> ELSE All[i - 1] \o Sub[roots[i]]
                    IN  All[Len(roots)]
                before == Reach(fib.node, fib.root)
                after == Reach(fib'.node, fib'.root)
            IN  /\ Set(after) = Set(before) \ {fib.root}
                /\ Len(after) = Len(before) - 1
                /\ Cardinality(Set(after)) = Len(after)
                /\ ret'.key = fib.node[fib.root].key
                /\ ret'.value = fib.node[fib.root].value
                /\ \A n \in Set(after) :
                      /\ fib'.node[n].key = fib.node[n].key
                      /\ fib'.node[n].value = fib.node[n].value
      ]_vars

\* the second extract_min on a heap built from nine pairs has taken the
\* root of the tree of eight nodes, which had three children, and has left
\* three trees
FibExtractConservesWitness ==
    /\ engine = "fib" /\ ret.op = "extract_min" /\ ret.error = None
    /\ Len(keys) = 9 /\ Len(out) = 2 /\ cuts = 0
    /\ fib.size = 7
    /\ Len(FibRoots) = 3

\* ======================================================================
\* Pointer-based binary heap: decrease_key
\* ======================================================================

\* the two classes of heaps whose nodes are linked by pointers
TreeEngines == {"tree", "treep"}

\* a freshly constructed BinaryHeapTree() or BinaryHeapTreeP()
InitTree ==
    /\ engine \in TreeEngines
    /\ fib = FibInit
    /\ bin = BinInit
    /\ ret = NoRet
    /\ stored = EmptyBag
    /\ prevExtract = Null
    /\ keys = <<>>
    /\ items = <<>>
    /\ out = <<>>
    /\ pc = "ops"
    /\ forestA = <<>>
    /\ forestB = <<>>
    /\ skew = SkewInit
    /\ tree = TreeInit
    /\ debug = TRUE
    /\ cuts = 0

\* heap.push(k, v)
TreePush(k, v) ==
    /\ pc = "ops" /\ engine \in TreeEngines
    /\ Len(tree.node) < MaxNodes
    /\ tree' = tree_push(tree, engine, k, v)
    /\ ret' = [NoRet EXCEPT !.op = "push", !.key = k, !.value = v]
    /\ UNCHANGED <<engine, fib, bin, stored, prevExtract, keys, items, out, pc,
                   forestA, forestB, skew, debug, cuts>>

\* heap.decrease_key(x, k) on a node x of the heap, reached from heap.root
TreeDecreaseKey(x, k) ==
    /\ pc = "ops" /\ engine \in TreeEngines
    /\ x \in 1..Len(tree.node)
    /\ LET r == tree_decrease_key(tree, x, k)
       IN  tree' = r.heap /\ ret' = r.ret
    /\ UNCHANGED <<engine, fib, bin, stored, prevExtract, keys, items, out, pc,
                   forestA, forestB, skew, debug, cuts>>

\* heap.find_min()
TreeFindMin ==
    /\ pc = "ops" /\ engine \in TreeEngines
    /\ ret' = tree_find_min(tree)
    /\ UNCHANGED <<tree, engine, fib, bin, stored, prevExtract, keys, items, out,
                   pc, forestA, forestB, skew, debug, cuts>>

NextTree ==
    \/ \E k \in Keys : TreePush(k, Len(tree.node) + 1)
    \/ \E x \in 1..Len(tree.node), k \in Keys : TreeDecreaseKey(x, k)
    \/ TreeFindMin

\* any interleaving of push, decrease_key and find_min
SpecTree == InitTree /\ [][NextTree]_vars

\* C39: after decrease_key(node, new_key) with new_key <= node.key on a
\* BinaryHeapTree or BinaryHeapTreeP in heap order, every node has again a
\* key <= the keys of its children, and find_min returns the smallest
\* stored key
TreeDecreaseKeyOrder ==
    [][\A x \in 1..Len(tree.node), k \in Keys :
         LET Ordered(N) ==
                 \A n \in 1..Len(N) :
                     /\ N[n].left # Null => N[n].key <= N[N[n].left].key
                     /\ N[n].right # Null => N[n].key <= N[N[n].right].key
         IN  (/\ ret'.op = "decrease_key"
              /\ TreeDecreaseKey(x, k)
              /\ k <= tree.node[x].key
              /\ Ordered(tree.node)) =>
                 /\ ret'.error = None
                 /\ Ordered(tree'.node)
                 /\ \A n \in 1..Len(tree'.node) :
                        tree_find_min(tree').key <= tree'.node[n].key
      ]_vars

====
